---------------------------- MODULE Spec2Model ----------------------------
(***************************************************************************)
(* Verification model of the legal-redaction backend.                      *)
(*                                                                         *)
(* Part I   hybrid text detector  (hybrid_ner_service.py, has_service.py)  *)
(* Part II  replacement engine    (redactor.py, RedactionContext)          *)
(* Part III dual-pipeline fuser   (vision_service.py)                      *)
(* Part IV  box geometry          (glm_client.py, hybrid_vision_service.py)*)
(* Part V   box types             (vision_service.py, hybrid_vision_...)   *)
(* Part VI  configuration registries (entity_types.py, vision_pipeline.py) *)
(* Part VII store files           (persistence.py, model_config.py)        *)
(*                                                                         *)
(* Strings are sequences over a small alphabet, offsets are 0-based and    *)
(* half-open as in Python.  Confidences are percentages (0.95 -> 95).      *)
(***************************************************************************)
EXTENDS Integers, Sequences, FiniteSets, TLC

VARIABLES
    \* ---- hybrid text detector -------------------------------------------
    pc,               \* position inside HybridNERService.extract
    doc,              \* the `text` argument
    modes,            \* remaining entries of the `modes` list of Stage 1
    enabled_type_ids, \* ids of the `entity_types` argument
    all_entities,     \* the candidate list gathered by Stages 1 and 2
    result,           \* the list returned by _cross_validate
    stage1,           \* history: how the HaS calls of Stage 1 went so far
    \* ---- replacement engine ---------------------------------------------
    rmode,            \* RedactionContext.mode ("none": no context yet)
    custom_replacements, \* RedactionContext.custom_replacements
    structured_tag_map,  \* RedactionContext.structured_tag_map
    coref_map,        \* RedactionContext._coref_map
    entity_map,       \* RedactionContext.entity_map
    type_counters,    \* RedactionContext.type_counters
    replacements,     \* the `replacements` dict of _redact_docx
    generated,        \* history: the replacements generated, in order
    log,              \* history: what every entity of the run was given
    \* ---- dual-pipeline fuser --------------------------------------------
    fpc,              \* position inside detect_with_dual_pipeline
    selected_ocr_has_types,    \* `ocr_has_types` of detect_sensitive_regions
    selected_glm_vision_types, \* `glm_vision_types` of detect_sensitive_regions
    ocr_has_types,    \* argument of detect_with_dual_pipeline
    glm_vision_types, \* argument of detect_with_dual_pipeline
    ocr_task,         \* state of the OCR+HaS task
    glm_task,         \* state of the GLM Vision task
    ocr_result,       \* boxes returned by the OCR+HaS task
    glm_result,       \* boxes returned by the GLM Vision task
    fused,            \* the list returned by _deduplicate_boxes
    perf_log,         \* the labels of the [PERF] lines, in the order printed
    \* ---- box geometry of the vision pipelines ---------------------------
    gpc,              \* which pipeline produced bounding_boxes ("idle": none)
    image_size,       \* (img_w, img_h) of the page image
    raw_boxes,        \* the box_2d lists of the VLM answer
    coord_mode,       \* the (mode, base) vision_detect_direct settled on
    bounding_boxes,   \* the BoundingBox list the pipeline returned
    \* ---- box types of the vision pipelines ------------------------------
    tpc,              \* which pipeline produced box_types ("idle": none)
    invoked_types,    \* ids of the type list the pipeline was invoked with
    model_labels,     \* the object types of the VLM / keys of the NER answer
    box_types,        \* the `type` of every box the pipeline returned
    \* ---- configuration registries ---------------------------------------
    response,         \* the handler that ran last and its HTTP status
    objects,          \* the heap of EntityTypeConfig objects, by address
    entity_types_db,  \* the dict entity_types_db: id -> address
    pipelines_db,     \* the dict pipelines_db: mode -> PipelineConfig
    pipeline_store,   \* the file PIPELINE_STORE_PATH
    \* ---- store files -----------------------------------------------------
    wpc,              \* the save that is under way ("idle": none)
    files,            \* path -> the chunks written to the file
    previous,         \* store path -> the document it held before the save
    pending,          \* store path -> the document of the last save begun
    \* ---- model configuration --------------------------------------------
    DEFAULT_CONFIGS,  \* the module object DEFAULT_CONFIGS of model_config.py
    model_config_file, \* the file CONFIG_FILE: <<>> or <<the list it holds>>
    \* ---- DOCX writer ----------------------------------------------------
    dpc,              \* position inside _replace_in_paragraph ("idle": no call)
    para_runs,        \* run.text of every run of the paragraph, as handed in
    para_replacements, \* the `replacements` argument, in the order of the dict
    para_matches,     \* the `matches` list before it is sorted
    filtered_matches, \* the `filtered_matches` list
    run_outputs,      \* run.text of every run when the call returns
    \* ---- HaS client ------------------------------------------------------
    hpc,              \* position inside hybrid_ner_extract ("idle": no request)
    hdoc,             \* the document the request is for
    history_mapping,  \* HaSClient._history_mapping: tag -> list of texts
    history_origin,   \* history: <<tag, text, document>> of every entry added
    history_sent,     \* the history_json of the last hide prompt
    \* ---- GLM client ------------------------------------------------------
    mcp_available,    \* the module global _mcp_available
    mcp_check_started, \* the module global _mcp_check_started
    probe_pc,         \* the thread of _mcp_health_loop ("none": not started)
    last_probe,       \* history: how the probe completed last went
    vpc,              \* position inside GLMClient.vision_detect
    provider,         \* what get_active_model_config gives the request
    flag_read,        \* is_mcp_available as the request read it: "ok" is True
    upstream_calls,   \* history: <<upstream, outcome>> of the calls issued
    vlm_boxes,        \* what the request returns
    \* ---- uploaded files --------------------------------------------------
    file_store,       \* the dict file_store: file id -> keys of its record
    uploads,          \* how many files were uploaded so far
    in_flight,        \* file ids of the vision detections that are awaiting
    delivered,        \* history: file ids whose redacted file was sent
    file_response     \* the handler that answered last and its HTTP status

textVars   == <<pc, doc, modes, enabled_type_ids, all_entities, result, stage1>>
redactVars == <<rmode, custom_replacements, structured_tag_map, coref_map,
                entity_map, type_counters, replacements, generated, log>>
fuseVars   == <<fpc, selected_ocr_has_types, selected_glm_vision_types,
                ocr_has_types, glm_vision_types, ocr_task, glm_task,
                ocr_result, glm_result, fused, perf_log>>
geomVars   == <<gpc, image_size, raw_boxes, coord_mode, bounding_boxes>>
\* the variables of the parts that follow the fuser
typeVars   == <<tpc, invoked_types, model_labels, box_types>>
taxVars    == <<objects, entity_types_db>>
pipeVars   == <<pipelines_db, pipeline_store>>
cfgVars    == <<response, taxVars, pipeVars>>
storeVars  == <<wpc, files, previous, pending>>
modelVars  == <<DEFAULT_CONFIGS, model_config_file>>
\* the variables of the parts that follow the store files
docxVars   == <<dpc, para_runs, para_replacements, para_matches, filtered_matches,
                run_outputs>>
hasVars    == <<hpc, hdoc, history_mapping, history_origin, history_sent>>
probeVars  == <<mcp_available, mcp_check_started, probe_pc, last_probe>>
glmVars    == <<probeVars, vpc, provider, flag_read, upstream_calls, vlm_boxes>>
fileVars   == <<file_store, uploads, in_flight, delivered, file_response>>
laterVars  == <<modelVars, docxVars, hasVars, glmVars, fileVars>>
confVars   == <<cfgVars, storeVars, laterVars>>
restVars   == <<geomVars, typeVars, confVars>>
detectVars == <<textVars, redactVars, fuseVars, geomVars, typeVars>>
vars       == <<textVars, redactVars, fuseVars, restVars>>

-----------------------------------------------------------------------------
(* Bounds of the model                                                     *)

MaxDocLen       == 2   \* longest document
MaxMentions     == 2   \* mentions (or tags) in one NER model response
MaxRegexMatches == 1   \* regex matches in one document
MaxCandidates   == 2   \* candidates handed to one _cross_validate call

Chars == {1, 2}

StrsUpTo(n) == UNION {[1..k -> Chars] : k \in 0..n}
SeqsUpTo(S, n) == UNION {[1..k -> S] : k \in 0..n}

\* The documents: the two characters are treated alike, so a non-empty
\* document is taken to begin with the character 1
Docs == {d \in StrsUpTo(MaxDocLen) : d = <<>> \/ d[1] = 1}

\* The texts a model may report for the document d: the substrings of d,
\* the empty text, and one text that occurs nowhere in d (every such text
\* is treated alike: str.find answers -1)
Substrings(d) == {SubSeq(d, i, j) : i \in 1..Len(d), j \in 1..Len(d)} \ {<<>>}
Mentions(d) == Substrings(d) \cup {<<>>, Append(d, 1)}

-----------------------------------------------------------------------------
(* Python string helpers                                                   *)

\* max(a, b) and min(a, b)
Max2(a, b) == IF a >= b THEN a ELSE b
Min2(a, b) == IF a <= b THEN a ELSE b

\* text[s:e] for 0 <= s <= e <= len(text)
Slice(text, s, e) == SubSeq(text, s + 1, e)

\* text.find(sub, from): least index >= from where sub occurs, else -1
Find(text, sub, from) ==
    LET hits == {p \in from..(Len(text) - Len(sub)) :
                    SubSeq(text, p + 1, p + Len(sub)) = sub}
    IN  IF hits = {} THEN -1
        ELSE CHOOSE p \in hits : \A q \in hits : p <= q

\* any(not (end <= s or pos >= e) for s, e in used_positions)
Overlaps(pos, end, used) ==
    \E u \in used : ~(end <= u[1] \/ pos >= u[2])

\* list.sort(key=lambda e: e.start): stable, ascending start
RECURSIVE SortByStart(_)
SortByStart(s) ==
    IF s = <<>> THEN <<>>
    ELSE LET front == SortByStart(SubSeq(s, 1, Len(s) - 1))
             e     == s[Len(s)]
             k     == Cardinality({i \in 1..Len(front) : front[i].start <= e.start})
         IN  SubSeq(front, 1, k) \o <<e>> \o SubSeq(front, k + 1, Len(front))

-----------------------------------------------------------------------------
(***************************************************************************)
(* Part I.  Hybrid text detector                                           *)
(***************************************************************************)

\* Category labels the NER model answers with.  The source uses Chinese
\* labels; they are written here in transliteration:
\*   renming = "人名", dangshiren = "当事人", dizhi = "地址", renwu = "人物"
NerLabels  == {"renming", "dangshiren", "dizhi"}
HideLabels == {"renwu", "dizhi"}

\* HaSService.TYPE_MAPPING_CN_TO_ID, restricted to the labels above
TYPE_MAPPING_CN_TO_ID ==
    [l \in {"renming", "dangshiren", "dizhi"} |->
        CASE l = "renming"    -> "PERSON"
          [] l = "dangshiren" -> "LEGAL_PARTY"
          [] l = "dizhi"      -> "ADDRESS"]

\* str.upper() on the labels that are not in the mapping
Upper(l) == CASE l = "renwu" -> "RENWU" [] OTHER -> l

\* TYPE_MAPPING_CN_TO_ID.get(label, label.upper())
TypeIdOf(l) ==
    IF l \in DOMAIN TYPE_MAPPING_CN_TO_ID THEN TYPE_MAPPING_CN_TO_ID[l]
    ELSE Upper(l)

NoCoref == [kind |-> "none", ty |-> "", n |-> 0]
\* f"coref_{n}" of extract_entities
CorefD(n) == [kind |-> "coref_d", ty |-> "", n |-> n]
\* f"coref_{n:03d}" of _cross_validate
Coref03d(n) == [kind |-> "coref_03d", ty |-> "", n |-> n]
\* the structured tag <label[n]...> of a hide response
TagCoref(tag) == [kind |-> "tag", ty |-> tag.label, n |-> tag.n]

MkEntity(pfx, k, text, type, start, confidence, source, coref) ==
    [id         |-> [pfx |-> pfx, n |-> k],
     text       |-> text,
     type       |-> type,
     start      |-> start,
     end        |-> start + Len(text),
     confidence |-> confidence,
     source     |-> source,
     coref_id   |-> coref]

\* index of the first occurrence of x in s (0 when absent)
IndexOf(x, s) ==
    IF \E i \in 1..Len(s) : s[i] = x
    THEN CHOOSE i \in 1..Len(s) : s[i] = x /\ \A j \in 1..(i - 1) : s[j] # x
    ELSE 0

\* the while-loop of extract_entities: every occurrence, scanning on from
\* the end of the previous one
RECURSIVE Occurrences(_, _, _)
Occurrences(content, sub, from) ==
    LET pos == Find(content, sub, from)
    IN  IF pos < 0 THEN <<>>
        ELSE <<pos>> \o Occurrences(content, sub, pos + Len(sub))

\* the loop over ner_result.items() in extract_entities; items is the
\* sequence of <<label, mention>> in iteration order, keys the insertion
\* order of coref_map
RECURSIVE NerLoop(_, _, _, _)
NerLoop(content, items, entities, keys) ==
    IF items = <<>> THEN entities
    ELSE LET entity_text    == Head(items)[2]
             entity_type_id == TypeIdOf(Head(items)[1])
             occ   == IF entity_text = <<>> THEN <<>>
                      ELSE Occurrences(content, entity_text, 0)
             key   == <<entity_text, entity_type_id>>
             keys2 == IF occ # <<>> /\ IndexOf(key, keys) = 0
                      THEN Append(keys, key) ELSE keys
             new   == [i \in 1..Len(occ) |->
                         MkEntity("has", Len(entities) + i - 1, entity_text,
                                  entity_type_id, occ[i], 95, "has",
                                  CorefD(IndexOf(key, keys2) - 1))]
         IN  NerLoop(content, Tail(items), entities \o new, keys2)

\* HaSService.extract_entities(content, entity_types) when client.ner
\* answered ner_result (an empty answer stands for a failed call as well)
ExtractEntities(content, ner_result) ==
    IF content = <<>> \/ ner_result = <<>> THEN <<>>
    ELSE SortByStart(NerLoop(content, ner_result, <<>>, <<>>))

\* find_next_occurrence of extract_entities_with_hide (-1 for None)
RECURSIVE FindNextOccurrence(_, _, _, _)
FindNextOccurrence(content, text, from, used) ==
    LET pos == Find(content, text, from)
    IN  IF pos < 0 THEN -1
        ELSE IF ~Overlaps(pos, pos + Len(text), used) THEN pos
        ELSE FindNextOccurrence(content, text, pos + Len(text), used)

\* "use the first candidate that can be located": <<text, pos>> or <<>>
RECURSIVE FirstLocatable(_, _, _)
FirstLocatable(content, candidates, used) ==
    IF candidates = <<>> THEN <<>>
    ELSE LET c   == Head(candidates)
             pos == IF c = <<>> THEN -1 ELSE FindNextOccurrence(content, c, 0, used)
         IN  IF pos >= 0 THEN <<c, pos>>
             ELSE FirstLocatable(content, Tail(candidates), used)

\* mapping.get(tag, []) where pairs lists the <<tag, mention>> of the
\* mapping in iteration order
RECURSIVE MappingGet(_, _)
MappingGet(pairs, tag) ==
    IF pairs = <<>> THEN <<>>
    ELSE (IF Head(pairs)[1] = tag THEN <<Head(pairs)[2]>> ELSE <<>>)
         \o MappingGet(Tail(pairs), tag)

\* the loop over HaSTagParser.find_all_tags(masked_text)
RECURSIVE HideLoop(_, _, _, _, _)
HideLoop(content, tags, mapping, entities, used) ==
    IF tags = <<>> THEN entities
    ELSE LET tag   == Head(tags)
             found == FirstLocatable(content, MappingGet(mapping, tag), used)
         IN  IF found = <<>>
             THEN HideLoop(content, Tail(tags), mapping, entities, used)
             ELSE LET e == MkEntity("has_hide", Len(entities), found[1],
                                    TypeIdOf(tag.label), found[2], 96, "has",
                                    TagCoref(tag))
                  IN  HideLoop(content, Tail(tags), mapping,
                               Append(entities, e),
                               used \cup {<<e.start, e.end>>})

\* HaSService.extract_entities_with_hide(content, entity_types) when
\* client.hide answered (masked_text, mapping); tags = the tags of
\* masked_text in order (an empty mapping stands for a failed call as well)
ExtractEntitiesWithHide(content, tags, mapping) ==
    IF content = <<>> \/ mapping = <<>> THEN <<>>
    ELSE SortByStart(HideLoop(content, tags, mapping, <<>>, {}))

\* a dict iterates each key once: equal keys are adjacent in the flattening
DictOrdered(items) ==
    \A i, j, k \in 1..Len(items) :
        (i < j /\ j < k /\ items[i][1] = items[k][1]) => items[j][1] = items[i][1]

HideTags == {[label |-> l, n |-> 1] : l \in HideLabels}

\* the answers of client.ner for the document d, as the <<label, mention>>
\* of ner_result in iteration order
NerResponses(d) ==
    {r \in SeqsUpTo(NerLabels \X Mentions(d), MaxMentions) : DictOrdered(r)}

\* the answers of client.hide for the document d: the k-th pair is the
\* k-th tag of masked_text with an original text the mapping lists for it
HideResponses(d) == SeqsUpTo(HideTags \X Mentions(d), MaxMentions)

\* what extract_entities can return: the pairs <<document, returned list>>
NerOutcomes ==
    UNION {{<<d, ExtractEntities(d, r)>> : r \in NerResponses(d)} : d \in Docs}

\* what extract_entities_with_hide can return, likewise
HideOutcomes ==
    UNION {{<<d, ExtractEntitiesWithHide(d, [i \in 1..Len(r) |-> r[i][1]], r)>> :
                r \in HideResponses(d)}
           : d \in Docs}

\* HybridNERService.REGEX_PATTERNS: (entity type, confidence) of every
\* pattern, in the iteration order of the dict
REGEX_PATTERNS ==
    << [type |-> "ID_CARD",       confidence |-> 99],
       [type |-> "PHONE",         confidence |-> 99],
       [type |-> "PHONE",         confidence |-> 90],
       [type |-> "BANK_CARD",     confidence |-> 95],
       [type |-> "EMAIL",         confidence |-> 99],
       [type |-> "CASE_NUMBER",   confidence |-> 98],
       [type |-> "DATE",          confidence |-> 95],
       [type |-> "DATE",          confidence |-> 95],
       [type |-> "LICENSE_PLATE", confidence |-> 98] >>

\* The pattern texts are not interpreted: which spans a pattern matches is
\* left open.  What re.finditer guarantees is kept: the matches of one
\* pattern are non-empty, ascending and do not overlap one another, and
\* patterns are visited in table order, enabled types only.
RegexMatchLists(text, enabled, room) ==
    LET single == {m \in (1..Len(REGEX_PATTERNS)) \X (0..Len(text)) \X (0..Len(text)) :
                      REGEX_PATTERNS[m[1]].type \in enabled /\ m[2] < m[3]}
    IN  {m \in SeqsUpTo(single, Min2(MaxRegexMatches, room)) :
            \A i \in 1..(Len(m) - 1) :
                \/ m[i][1] < m[i + 1][1]
                \/ m[i][1] = m[i + 1][1] /\ m[i][3] <= m[i + 1][2]}

\* HybridNERService._regex_extract(text, enabled_type_ids) for one choice
\* of matches
RegexExtract(text, matches) ==
    [i \in 1..Len(matches) |->
        MkEntity("regex", i - 1,
                 Slice(text, matches[i][2], matches[i][3]),
                 REGEX_PATTERNS[matches[i][1]].type,
                 matches[i][2],
                 REGEX_PATTERNS[matches[i][1]].confidence,
                 "regex", NoCoref)]

\* source_rank of _cross_validate
source_rank(source) ==
    CASE source = "regex"  -> 3
      [] source = "has"    -> 2
      [] source = "llm"    -> 2
      [] source = "manual" -> 1
      [] OTHER             -> 0

\* type_priority of _cross_validate
type_priority(entity_type) ==
    CASE entity_type = "ADDRESS" -> 3
      [] entity_type \in {"ORG", "PERSON", "LEGAL_PARTY", "LAWYER", "JUDGE"} -> 2
      [] OTHER -> 1

\* the relocation while-loop of _cross_validate (-1: not found)
RECURSIVE Relocate(_, _, _, _)
Relocate(text, sub, start_index, used) ==
    LET found == Find(text, sub, start_index)
    IN  IF found < 0 THEN -1
        ELSE IF ~Overlaps(found, found + Len(sub), used) THEN found
        ELSE Relocate(text, sub, found + Len(sub), used)

\* ValidateOne without the comparison of text[start:end] with entity.text
ValidateOne_NoTextCheck(entity, text, used) ==
    IF /\ 0 <= entity.start
       /\ entity.start < entity.end
       /\ entity.end <= Len(text)
    THEN <<entity>>
    ELSE LET found == Relocate(text, entity.text, 0, used)
         IN  IF found < 0 THEN <<>>
             ELSE <<[entity EXCEPT !.start = found,
                                   !.end   = found + Len(entity.text)]>>

\* step 1 of _cross_validate for one entity: <<entity as accepted>>, or
\* <<>> when its text cannot be placed
ValidateOne(entity, text, used) ==
    IF /\ 0 <= entity.start
       /\ entity.start < entity.end
       /\ entity.end <= Len(text)
       /\ Slice(text, entity.start, entity.end) = entity.text
    THEN <<entity>>
    ELSE LET found == Relocate(text, entity.text, 0, used)
         IN  IF found < 0 THEN <<>>
             ELSE <<[entity EXCEPT !.start = found,
                                   !.end   = found + Len(entity.text)]>>

\* step 1 of _cross_validate: the validated list
RECURSIVE PositionFixup(_, _, _, _)
PositionFixup(entities, text, validated, used) ==
    IF entities = <<>> THEN validated
    ELSE LET v == ValidateOne(Head(entities), text, used)
         IN  PositionFixup(Tail(entities), text, validated \o v,
                           used \cup {<<v[i].start, v[i].end>> : i \in 1..Len(v)})

\* Replaces with the source rank compared before the confidence
Replaces_SourceFirst(entity, existing) ==
    \/ source_rank(entity.source) > source_rank(existing.source)
    \/ /\ source_rank(entity.source) = source_rank(existing.source)
       /\ \/ entity.confidence > existing.confidence
          \/ /\ entity.confidence = existing.confidence
             /\ type_priority(entity.type) > type_priority(existing.type)

\* the comparison chain of step 2: the newcomer takes the place of existing
Replaces(entity, existing) ==
    \/ entity.confidence > existing.confidence
    \/ /\ entity.confidence = existing.confidence
       /\ \/ source_rank(entity.source) > source_rank(existing.source)
          \/ /\ source_rank(entity.source) = source_rank(existing.source)
             /\ type_priority(entity.type) > type_priority(existing.type)

\* step 2 of _cross_validate: emap holds the values of entity_map in
\* insertion order of their (start, end) keys
RECURSIVE Dedupe(_, _)
Dedupe(validated, emap) ==
    IF validated = <<>> THEN emap
    ELSE LET entity == Head(validated)
             hit    == {i \in 1..Len(emap) :
                           emap[i].start = entity.start /\ emap[i].end = entity.end}
         IN  IF hit = {} THEN Dedupe(Tail(validated), Append(emap, entity))
             ELSE LET i == CHOOSE j \in hit : TRUE
                  IN  IF Replaces(entity, emap[i])
                      THEN Dedupe(Tail(validated), [emap EXCEPT ![i] = entity])
                      ELSE Dedupe(Tail(validated), emap)

\* step 3 of _cross_validate: keys is text_type_to_coref in insertion order
RECURSIVE AssignCoref(_, _)
AssignCoref(deduped, keys) ==
    IF deduped = <<>> THEN <<>>
    ELSE LET entity == Head(deduped)
             key    == <<entity.text, entity.type>>
             keys2  == IF IndexOf(key, keys) = 0 THEN Append(keys, key) ELSE keys
         IN  <<[entity EXCEPT !.coref_id = Coref03d(IndexOf(key, keys2))]>>
             \o AssignCoref(Tail(deduped), keys2)

\* step 4 of _cross_validate: entity.id = f"entity_{i}"
Renumber(entities) ==
    [i \in 1..Len(entities) |->
        [entities[i] EXCEPT !.id = [pfx |-> "entity", n |-> i - 1]]]

\* HybridNERService._cross_validate(entities, text)
CrossValidate(entities, text) ==
    IF entities = <<>> THEN <<>>
    ELSE Renumber(SortByStart(AssignCoref(
             Dedupe(PositionFixup(entities, text, <<>>, {}), <<>>), <<>>)))

\* the entity_types arguments tried (their ids)
EntityTypeChoices ==
    {{"PERSON"}, {"PERSON", "PHONE", "BANK_CARD"}}

HasModes == {"ner", "hide", "auto"}

TextIdle ==
    /\ pc = "idle"
    /\ doc = <<>>
    /\ modes = <<>>
    /\ enabled_type_ids = {}
    /\ all_entities = <<>>
    /\ result = <<>>
    /\ stage1 = "none"

\* entry of HybridNERService.extract: is_available() and the modes list
Extract(text, types, has_mode, available) ==
    /\ pc = "idle"
    /\ doc' = text
    /\ enabled_type_ids' = types
    /\ modes' = IF ~available THEN <<>>
                ELSE IF has_mode = "auto" THEN <<"ner", "hide">>
                ELSE <<has_mode>>
    /\ all_entities' = <<>>
    /\ result' = <<>>
    /\ pc' = IF modes' = <<>> THEN "stage2" ELSE "stage1"
    /\ stage1' = IF available THEN "none" ELSE "skipped"
    /\ UNCHANGED <<redactVars, fuseVars, restVars>>

\* Stage 1, one turn of the loop over modes, mode # "hide"
Stage1Ner ==
    /\ pc = "stage1"
    /\ Head(modes) # "hide"
    /\ \E out \in NerOutcomes :
          /\ out[1] = doc
          /\ Len(all_entities) + Len(out[2]) <= MaxCandidates
          /\ all_entities' = all_entities \o out[2]
    /\ modes' = Tail(modes)
    /\ pc' = IF modes' = <<>> THEN "stage2" ELSE "stage1"
    /\ stage1' = "answered"
    /\ UNCHANGED <<doc, enabled_type_ids, result, redactVars, fuseVars, restVars>>

\* Stage 1, one turn of the loop over modes, mode = "hide"
Stage1Hide ==
    /\ pc = "stage1"
    /\ Head(modes) = "hide"
    /\ \E out \in HideOutcomes :
          /\ out[1] = doc
          /\ Len(all_entities) + Len(out[2]) <= MaxCandidates
          /\ all_entities' = all_entities \o out[2]
    /\ modes' = Tail(modes)
    /\ pc' = IF modes' = <<>> THEN "stage2" ELSE "stage1"
    /\ stage1' = "answered"
    /\ UNCHANGED <<doc, enabled_type_ids, result, redactVars, fuseVars, restVars>>

Stage1Fails_Propagates(raised) ==
    /\ pc = "stage1"
    /\ pc' = "raised"
    /\ stage1' = IF stage1 = "answered" THEN "answered" ELSE "failed"
    /\ UNCHANGED <<doc, modes, enabled_type_ids, all_entities, result>>
    /\ UNCHANGED <<redactVars, fuseVars, restVars>>

\* Stage 1, one turn of the loop over modes in which the HaS call fails.  A
\* failure of the client is caught inside has_service and the call returns
\* []: the loop goes on with the next mode.  An exception has_service lets
\* through (`raised`) is caught by extract, which leaves the loop.
Stage1Fails(raised) ==
    /\ pc = "stage1"
    /\ modes' = IF raised THEN <<>> ELSE Tail(modes)
    /\ pc' = IF modes' = <<>> THEN "stage2" ELSE "stage1"
    /\ stage1' = IF stage1 = "answered" THEN "answered" ELSE "failed"
    /\ UNCHANGED <<doc, enabled_type_ids, all_entities, result>>
    /\ UNCHANGED <<redactVars, fuseVars, restVars>>

\* Stage 2: all_entities.extend(self._regex_extract(text, enabled_type_ids))
Stage2Regex ==
    /\ pc = "stage2"
    /\ \E matches \in RegexMatchLists(doc, enabled_type_ids,
                                       MaxCandidates - Len(all_entities)) :
          all_entities' = all_entities \o RegexExtract(doc, matches)
    /\ pc' = "stage3"
    /\ UNCHANGED <<doc, modes, enabled_type_ids, result, stage1, redactVars, fuseVars, restVars>>

\* Stage 3: return self._cross_validate(all_entities, text)
Stage3CrossValidate ==
    /\ pc = "stage3"
    /\ result' = CrossValidate(all_entities, doc)
    /\ pc' = "done"
    /\ UNCHANGED <<doc, modes, enabled_type_ids, all_entities, stage1, redactVars, fuseVars, restVars>>

\* ---- _cross_validate called on a candidate list of its own ---------------
\* A candidate for the document d reports a non-empty text and an offset
\* that may point at the wrong place or outside the document.
DirectCandidates(d) ==
    {[id         |-> [pfx |-> "cand", n |-> 0],
      text       |-> t,
      type       |-> "PERSON",
      start      |-> st,
      end        |-> st + Len(t),
      confidence |-> 95,
      source     |-> "has",
      coref_id   |-> NoCoref] :
        t  \in Mentions(d) \ {<<>>},
        st \in (-1)..(MaxDocLen - 1)}

CrossValidateCall ==
    /\ pc = "idle"
    /\ \E text \in Docs :
          \E entities \in SeqsUpTo(DirectCandidates(text), MaxCandidates) :
              /\ doc' = text
              /\ all_entities' = entities
    /\ pc' = "stage3"
    /\ UNCHANGED <<modes, enabled_type_ids, result, stage1, redactVars, fuseVars, restVars>>

RedactIdle ==
    /\ rmode = "none"
    /\ custom_replacements = <<>>
    /\ structured_tag_map = <<>>
    /\ coref_map = <<>>
    /\ entity_map = <<>>
    /\ type_counters = <<>>
    /\ replacements = <<>>
    /\ generated = <<>>
    /\ log = {}

FuseIdle ==
    /\ fpc = "idle"
    /\ selected_ocr_has_types = <<>>
    /\ selected_glm_vision_types = <<>>
    /\ ocr_has_types = [none |-> TRUE, ids |-> <<>>]
    /\ glm_vision_types = [none |-> TRUE, ids |-> <<>>]
    /\ ocr_task = "none"
    /\ glm_task = "none"
    /\ ocr_result = <<>>
    /\ glm_result = <<>>
    /\ fused = <<>>
    /\ perf_log = <<>>

\* ---- the detector serving extract requests -------------------------------
\* no vision pipeline has returned boxes yet
GeomIdle ==
    /\ gpc = "idle"
    /\ image_size = [w |-> 0, h |-> 0]
    /\ raw_boxes = <<>>
    /\ coord_mode = [mode |-> "none", base |-> 0]
    /\ bounding_boxes = <<>>

\* no vision pipeline has returned typed boxes yet
TypesIdle ==
    /\ tpc = "idle"
    /\ invoked_types = <<>>
    /\ model_labels = <<>>
    /\ box_types = <<>>

\* ---- the configuration the server starts with ----------------------------
\* Python dicts hold references: `objects` is the heap of EntityTypeConfig
\* objects, and PRESET_ENTITY_TYPES and entity_types_db map an id to the
\* address of an object.  The object a preset literal constructs has its id
\* for address, and so has the object create_entity_type constructs.
\* the uuid4 prefixes create_entity_type can draw
MaxCustomTypes == 2

CustomIdTable == <<"custom_1", "custom_2", "custom_3", "custom_4">>
CustomIds == {CustomIdTable[n] : n \in 1..MaxCustomTypes}

\* the EntityTypeConfig literals of PRESET_ENTITY_TYPES, two of them
ShippedEntityTypes ==
    [id \in {"PERSON", "MILITARY_ID"} |->
        IF id = "PERSON"
        THEN [id |-> "PERSON", name |-> "xingming",
              enabled |-> TRUE, order |-> 1]
        ELSE [id |-> "MILITARY_ID", name |-> "junguanzheng",
              enabled |-> FALSE, order |-> 5]]

PresetIds == DOMAIN ShippedEntityTypes

\* the dict PRESET_ENTITY_TYPES: id -> address of the object of the literal
PRESET_ENTITY_TYPES == [id \in PresetIds |-> id]

\* the heap before any object was constructed at an address
Unallocated == [id |-> "", name |-> "", enabled |-> FALSE, order |-> 0]

\* the heap once the literals of PRESET_ENTITY_TYPES were constructed
ImportedObjects ==
    [a \in PresetIds \cup CustomIds |->
        IF a \in PresetIds THEN ShippedEntityTypes[a] ELSE Unallocated]

\* the state after `import app.api.entity_types`
EntityTypesLoaded(objs, db) ==
    /\ objs = ImportedObjects
    /\ db = PRESET_ENTITY_TYPES

\* PRESET_PIPELINES, with one PipelineTypeConfig per pipeline
PRESET_PIPELINES ==
    [mode \in {"ocr_has", "glm_vision"} |->
        IF mode = "ocr_has"
        THEN [name |-> "OCR + HaS", enabled |-> TRUE,
              types |-> <<[id |-> "PERSON", enabled |-> TRUE]>>]
        ELSE [name |-> "GLM Vision", enabled |-> TRUE,
              types |-> <<[id |-> "SIGNATURE", enabled |-> TRUE]>>]]

\* the file PIPELINE_STORE_PATH is <<>> when it does not exist, and <<data>>
\* after save_json wrote data; load_json(path, default=None)
load_json(file) == IF file = <<>> THEN <<>> ELSE file[1]

\* _load_pipelines: the presets, with the stored enabled and types
load_pipelines(file) ==
    LET raw == load_json(file)
    IN  IF raw = <<>> THEN PRESET_PIPELINES
        ELSE [key \in DOMAIN PRESET_PIPELINES \cup DOMAIN raw |->
                 IF key \notin DOMAIN raw THEN PRESET_PIPELINES[key]
                 ELSE IF key \in DOMAIN PRESET_PIPELINES
                 THEN [PRESET_PIPELINES[key] EXCEPT
                          !.enabled = raw[key].enabled,
                          !.types = raw[key].types]
                 ELSE raw[key]]

\* save_json(path, data), from the temporary file to os.replace
save_json(data) == <<data>>

\* the state after `import app.api.vision_pipeline` with the store `file`
PipelinesLoaded(db, store, file) ==
    /\ db = load_pipelines(file)
    /\ store = save_json(db)

\* ---- the store files the server starts with ------------------------------
\* the chunks json.dump writes for a document
Serialise(document) == <<"{", document, "}">>

\* a path nothing was ever written to
Absent == <<"ENOENT">>

PIPELINE_STORE_PATH == "pipelines.json"
CONFIG_FILE == "model_config.json"

\* tmp_path = f"{path}.tmp"
TmpPath(path) ==
    IF path = "pipelines.json" THEN "pipelines.json.tmp"
    ELSE "model_config.json.tmp"

StorePaths == {PIPELINE_STORE_PATH, CONFIG_FILE}

\* the files once vision_pipeline.py was imported: line 277 has written the
\* pipeline store; model_config.json is written by the first save_configs
StoreIdle ==
    /\ wpc = "idle"
    /\ files = [path \in StorePaths \cup {TmpPath(PIPELINE_STORE_PATH)} |->
                   IF path = PIPELINE_STORE_PATH THEN Serialise("enabled")
                   ELSE Absent]
    /\ previous = [path \in StorePaths |->
                      IF path = PIPELINE_STORE_PATH THEN "enabled"
                      ELSE "local_glm"]
    /\ pending = previous

\* both configuration modules were imported, with no pipeline store on disk
ConfigIdle ==
    /\ response = [op |-> "startup", status |-> 0]
    /\ EntityTypesLoaded(objects, entity_types_db)
    /\ PipelinesLoaded(pipelines_db, pipeline_store, <<>>)

\* ---- the model configuration the server starts with ----------------------
\* DEFAULT_CONFIGS as model_config.py ships it: a ModelConfig is modelled by
\* its id and its enabled flag, None by "null"
ShippedConfigs ==
    [configs   |-> <<[id |-> "local_glm", enabled |-> TRUE],
                     [id |-> "zhipu_glm4v", enabled |-> FALSE]>>,
     active_id |-> "local_glm"]

\* model_config.py was imported and no configuration file was written yet
ModelConfigIdle ==
    /\ DEFAULT_CONFIGS = ShippedConfigs
    /\ model_config_file = <<>>

\* no paragraph was handed to the DOCX writer yet
DocxIdle ==
    /\ dpc = "idle"
    /\ para_runs = <<>>
    /\ para_replacements = <<>>
    /\ para_matches = <<>>
    /\ filtered_matches = <<>>
    /\ run_outputs = <<>>

\* has_client.py was imported: HaSClient.__init__ has run, no request yet
HasIdle ==
    /\ hpc = "idle"
    /\ hdoc = 0
    /\ history_mapping = <<>>
    /\ history_origin = {}
    /\ history_sent = <<>>

\* glm_client.py was imported: the globals of lines 49-52, no request yet
GlmIdle ==
    /\ mcp_available = FALSE
    /\ mcp_check_started = FALSE
    /\ probe_pc = "none"
    /\ last_probe = "none"
    /\ vpc = "idle"
    /\ provider = "none"
    /\ flag_read = "none"
    /\ upstream_calls = <<>>
    /\ vlm_boxes = "none"

\* files.py was imported with no file store on disk
FilesIdle ==
    /\ file_store = <<>>
    /\ uploads = 0
    /\ in_flight = {}
    /\ delivered = {}
    /\ file_response = [op |-> "startup", status |-> 0]

LaterIdle == ModelConfigIdle /\ DocxIdle /\ HasIdle /\ GlmIdle /\ FilesIdle

RestIdle == GeomIdle /\ TypesIdle /\ ConfigIdle /\ StoreIdle /\ LaterIdle

InitExtract == TextIdle /\ RedactIdle /\ FuseIdle /\ RestIdle

NextExtract ==
    \/ \E text \in Docs, types \in EntityTypeChoices,
          has_mode \in HasModes, available \in BOOLEAN :
              Extract(text, types, has_mode, available)
    \/ Stage1Ner
    \/ Stage1Hide
    \/ Stage2Regex
    \/ Stage3CrossValidate

SpecExtract == InitExtract /\ [][NextExtract]_vars

NextCrossValidate ==
    \/ CrossValidateCall
    \/ Stage3CrossValidate

SpecCrossValidate == InitExtract /\ [][NextCrossValidate]_vars

\* an extraction whose HaS calls may fail
NextDegraded ==
    \/ NextExtract
    \/ \E raised \in BOOLEAN : Stage1Fails(raised)

SpecDegraded == InitExtract /\ [][NextDegraded]_vars

-----------------------------------------------------------------------------
(* Properties of the hybrid text detector                                  *)

Spans(entities) == {<<entities[i].start, entities[i].end>> : i \in 1..Len(entities)}
At(entities, span) ==
    {entities[i] : i \in {j \in 1..Len(entities) :
                             <<entities[j].start, entities[j].end>> = span}}
MaxOf(S) == CHOOSE x \in S : \A y \in S : y <= x

\* C1: the returned list is sorted by start ascending and no two returned
\* entities overlap.
C1_SortedNonOverlapping ==
    pc = "done" =>
        \A i, j \in 1..Len(result) :
            i < j => /\ result[i].start <= result[j].start
                     /\ result[i].end <= result[j].start

\* C2: every returned entity satisfies 0 <= start < end <= len(doc) and
\* doc[start:end] == text, relocated entities included.
C2_OffsetsMatchText ==
    pc = "done" =>
        \A i \in 1..Len(result) :
            /\ 0 <= result[i].start
            /\ result[i].start < result[i].end
            /\ result[i].end <= Len(doc)
            /\ Slice(doc, result[i].start, result[i].end) = result[i].text

Misplaced(e) ==
    ~(/\ 0 <= e.start /\ e.start < e.end /\ e.end <= Len(doc)
      /\ Slice(doc, e.start, e.end) = e.text)

\* a candidate with a wrong offset was moved past a span already claimed
C2_Witness ==
    /\ pc = "done"
    /\ Len(all_entities) = 2
    /\ ~Misplaced(all_entities[1])
    /\ Misplaced(all_entities[2])
    /\ all_entities[2].text = all_entities[1].text
    /\ Len(result) = 2
    /\ result[2].text = all_entities[2].text
    /\ result[2].start = all_entities[1].end

\* C3: an entity of the final output that came from the hide call carries
\* the hide call's structured tag as its coref_id.
C3_HideTagKept ==
    pc = "done" =>
        \A i \in 1..Len(result), k \in 1..Len(all_entities) :
            (/\ all_entities[k].id.pfx = "has_hide"
             /\ all_entities[k].start = result[i].start
             /\ all_entities[k].end = result[i].end
             /\ all_entities[k].type = result[i].type
             /\ all_entities[k].confidence = result[i].confidence)
            => result[i].coref_id = all_entities[k].coref_id

RegexAndNerAt(span) ==
    /\ \E c \in At(all_entities, span) : c.source = "regex"
    /\ \E c \in At(all_entities, span) : c.source = "has"

\* C4 as stated: a span found by both a regex and the NER yields exactly one
\* entity, whose source is regex and whose confidence is the higher of the
\* two.
C4_RegexWinsSameSpan ==
    pc = "done" =>
        \A c1 \in {all_entities[i] : i \in 1..Len(all_entities)},
           c2 \in {all_entities[i] : i \in 1..Len(all_entities)} :
            (/\ c1.source = "regex" /\ c2.source = "has"
             /\ c1.start = c2.start /\ c1.end = c2.end)
            => /\ Cardinality({i \in 1..Len(result) :
                      <<result[i].start, result[i].end>> = <<c1.start, c1.end>>}) = 1
               /\ \A r \in At(result, <<c1.start, c1.end>>) :
                      /\ r.source = "regex"
                      /\ r.confidence = MaxOf({c1.confidence, c2.confidence})

\* C4 amended: a span found by both a regex and the NER yields exactly one
\* entity; its confidence is the highest confidence found at that span, and
\* its source is regex exactly when a regex candidate reaches that
\* confidence (otherwise it is the NER candidate's).
C4_HighestConfidenceSameSpan ==
    pc = "done" =>
        \A span \in Spans(all_entities) :
            RegexAndNerAt(span) =>
                LET top == MaxOf({c.confidence : c \in At(all_entities, span)})
                IN  /\ Cardinality({i \in 1..Len(result) :
                           <<result[i].start, result[i].end>> = span}) = 1
                    /\ \A r \in At(result, span) :
                           /\ r.confidence = top
                           /\ r.source = IF \E c \in At(all_entities, span) :
                                               c.source = "regex" /\ c.confidence = top
                                         THEN "regex" ELSE "has"

\* a regex match of confidence 0.90 met an NER mention of the same span
C4_Witness ==
    /\ pc = "done"
    /\ \E span \in Spans(all_entities) :
          /\ RegexAndNerAt(span)
          /\ \E r \in At(result, span) : r.source = "has"

\* type ids in lexicographic (code point) order; RENWU stands for a CJK
\* label, which sorts after the ASCII ids
TypeIdOrder ==
    << "ADDRESS", "BANK_CARD", "CASE_NUMBER", "DATE", "EMAIL", "ID_CARD",
       "LEGAL_PARTY", "LICENSE_PLATE", "PERSON", "PHONE", "RENWU" >>

\* a is greater than b in the order of C5
C5_Greater(a, b) ==
    \/ a.confidence > b.confidence
    \/ /\ a.confidence = b.confidence
       /\ \/ source_rank(a.source) > source_rank(b.source)
          \/ /\ source_rank(a.source) = source_rank(b.source)
             /\ \/ type_priority(a.type) > type_priority(b.type)
                \/ /\ type_priority(a.type) = type_priority(b.type)
                   /\ IndexOf(a.type, TypeIdOrder) < IndexOf(b.type, TypeIdOrder)

\* C5: the entity kept for a span is the greatest of the candidates of that
\* span under (confidence, source rank, type priority, lower type id), so
\* it is the same whatever the order of the candidates.
C5_WinnerIsGreatest ==
    pc = "done" =>
        \A i \in 1..Len(result) :
            \A c \in At(PositionFixup(all_entities, doc, <<>>, {}),
                        <<result[i].start, result[i].end>>) :
                ~C5_Greater(c, result[i])

\* C23: when HaS is unavailable or every HaS call of the run failed, the
\* failure does not leave extract: Stage 2 and Stage 3 follow, and the list
\* returned is _cross_validate of the regex matches alone.
C23_RegexAloneWhenHasDown ==
    stage1 \in {"skipped", "failed"} =>
        /\ pc \in {"stage1", "stage2", "stage3", "done"}
        /\ pc \in {"stage1", "stage2"} => all_entities = <<>>
        /\ pc \in {"stage3", "done"} =>
              \E matches \in RegexMatchLists(doc, enabled_type_ids, MaxCandidates) :
                  all_entities = RegexExtract(doc, matches)
        /\ pc = "done" => result = CrossValidate(all_entities, doc)

\* a HaS call failed and the run returned an entity a pattern matched
C23_Witness ==
    /\ pc = "done"
    /\ stage1 = "failed"
    /\ result # <<>>
    /\ \A i \in 1..Len(result) : result[i].source = "regex"

-----------------------------------------------------------------------------
(***************************************************************************)
(* Part II.  Replacement engine                                            *)
(***************************************************************************)

MaxEntities == 3    \* entities of one redaction run
MaxKeys     == 12   \* distinct keys given to one smart-mode context
MaxMaskLen  == 19   \* longest text masked

\* dict helpers: d[k] = v and d.get(k, default)
Put(d, k, v) == (k :> v) @@ d
Get(d, k, default) == IF k \in DOMAIN d THEN d[k] ELSE default

\* A replacement string, by its parts:
\*   smart    f"[{label}{num_str}]"            a = label, cn/dec = num_str
\*   mask     the masked characters            s, with 0 for "*"
\*   tag      f"<{category}[{index:03d}].{path}>"  a = category, b = path,
\*                                             dec = index
\*   literal  a string supplied by the caller  a
NoNum == [cn |-> "", dec |-> 0]
Token(kind, a, b, num, s) ==
    [kind |-> kind, a |-> a, b |-> b, cn |-> num.cn, dec |-> num.dec, s |-> s]
Literal(str) == Token("literal", str, "", NoNum, <<>>)
\* the text of a hide tag; what follows the index is not part of the tags
\* of Part I and is written as the empty path
TagString(label, n) == Token("tag", label, "", [cn |-> "", dec |-> n], <<>>)

\* entity_key = entity.coref_id or entity.text
entity_key(entity) ==
    IF entity.coref_id # NoCoref THEN [c |-> entity.coref_id, t |-> <<>>]
    ELSE [c |-> NoCoref, t |-> entity.text]

\* type_labels of _generate_smart_replacement, in transliteration
type_labels ==
    [PERSON        |-> "dangshiren",
     ORG           |-> "gongsi",
     ID_CARD       |-> "zhengjianhao",
     PHONE         |-> "dianhua",
     ADDRESS       |-> "dizhi",
     BANK_CARD     |-> "zhanghao",
     CASE_NUMBER   |-> "anhao",
     DATE          |-> "riqi",
     MONEY         |-> "jine",
     AMOUNT        |-> "jine",
     EMAIL         |-> "youxiang",
     LICENSE_PLATE |-> "chepai",
     CONTRACT_NO   |-> "hetongbianhao",
     CUSTOM        |-> "minganxinxi"]

\* chinese_nums of _generate_smart_replacement (a 0-based list)
chinese_nums ==
    <<"ling", "yi", "er", "san", "si", "wu", "liu", "qi", "ba", "jiu", "shi">>

\* generate_smart_replacement with `count < 10` for `count <= 10`
generate_smart_replacement_Below10(entity, counters) ==
    LET type_key == entity.type
        count    == Get(counters, type_key, 0) + 1
        label    == Get(type_labels, type_key, "minganxinxi")
        num_str  == IF count < 10
                    THEN [cn |-> chinese_nums[count + 1], dec |-> 0]
                    ELSE [cn |-> "", dec |-> count]
    IN  [rep      |-> Token("smart", label, "", num_str, <<>>),
         counters |-> Put(counters, type_key, count)]

\* RedactionContext._generate_smart_replacement: the string returned and
\* type_counters afterwards
generate_smart_replacement(entity, counters) ==
    LET type_key == entity.type
        count    == Get(counters, type_key, 0) + 1
        label    == Get(type_labels, type_key, "minganxinxi")
        num_str  == IF count <= 10
                    THEN [cn |-> chinese_nums[count + 1], dec |-> 0]
                    ELSE [cn |-> "", dec |-> count]
    IN  [rep      |-> Token("smart", label, "", num_str, <<>>),
         counters |-> Put(counters, type_key, count)]

\* "*" * n
Stars(n) == [i \in 1..n |-> 0]

\* RedactionContext._generate_mask_replacement
generate_mask_replacement(entity) ==
    LET text     == entity.text
        length   == Len(text)
        type_key == entity.type
        last4    == SubSeq(text, length - 3, length)
        masked   ==
            CASE type_key = "PERSON" ->
                    IF length >= 2 THEN <<text[1]>> \o Stars(length - 1)
                    ELSE Stars(1)
              [] type_key = "PHONE" ->
                    IF length >= 11 THEN SubSeq(text, 1, 3) \o Stars(4) \o last4
                    ELSE Stars(length)
              [] type_key = "ID_CARD" ->
                    IF length >= 18 THEN SubSeq(text, 1, 6) \o Stars(8) \o last4
                    ELSE Stars(length)
              [] type_key = "BANK_CARD" ->
                    IF length >= 16 THEN Stars(length - 4) \o last4
                    ELSE Stars(length)
              [] OTHER -> Stars(length)
    IN  Token("mask", "", "", NoNum, masked)

\* entity_types_db[type_key].tag_template of the shipped presets, restricted
\* to the types of the model: "<cat[{index}].path>" as (cat, path)
tag_templates ==
    [PERSON      |-> [cat |-> "xingming",       path |-> "ziranren.quanming"],
     ORG         |-> [cat |-> "jigouxinxi",     path |-> "mingcheng.quancheng"],
     AMOUNT      |-> [cat |-> "caiwuxinxi",     path |-> "jine.shuzhi"],
     LEGAL_PARTY |-> [cat |-> "susongcanyuren", path |-> "dangshiren.xingming"],
     LAWYER      |-> [cat |-> "susongcanyuren", path |-> "lvshi.xingming"]]

\* structured_map of _generate_structured_replacement
structured_map ==
    [PERSON        |-> [cat |-> "renwu",       path |-> "geren.xingming"],
     ORG           |-> [cat |-> "zuzhi",       path |-> "qiye.wanzhengmingcheng"],
     ADDRESS       |-> [cat |-> "didian",      path |-> "bangongdizhi.wanzhengdizhi"],
     PHONE         |-> [cat |-> "dianhua",     path |-> "gudingdianhua.haoma"],
     ID_CARD       |-> [cat |-> "bianhao",     path |-> "shenfenzheng.haoma"],
     BANK_CARD     |-> [cat |-> "bianhao",     path |-> "yinhangka.haoma"],
     CASE_NUMBER   |-> [cat |-> "bianhao",     path |-> "anjianbianhao.haoma"],
     DATE          |-> [cat |-> "riqi/shijian", path |-> "jutiriqi.nianyueri"],
     MONEY         |-> [cat |-> "jine",        path |-> "hetongjine.shuzhi"],
     AMOUNT        |-> [cat |-> "jine",        path |-> "hetongjine.shuzhi"],
     EMAIL         |-> [cat |-> "youxiang",    path |-> "gerenyouxiang.dizhi"],
     LICENSE_PLATE |-> [cat |-> "bianhao",     path |-> "chepai.haoma"],
     CONTRACT_NO   |-> [cat |-> "bianhao",     path |-> "hetongbianhao.daima"]]

\* RedactionContext._generate_structured_replacement: the string returned
\* and type_counters afterwards
generate_structured_replacement(entity, counters, tag_map) ==
    LET type_key  == entity.type
        index     == Get(counters, type_key, 0) + 1
        counters2 == Put(counters, type_key, index)
        num       == [cn |-> "", dec |-> index]
    IN  IF entity.coref_id.kind = "tag"
        THEN [rep      |-> TagString(entity.coref_id.ty, entity.coref_id.n),
              counters |-> counters]
        ELSE IF entity.text \in DOMAIN tag_map
        THEN [rep |-> tag_map[entity.text], counters |-> counters]
        ELSE IF type_key \in DOMAIN tag_templates
        THEN [rep      |-> Token("tag", tag_templates[type_key].cat,
                                 tag_templates[type_key].path, num, <<>>),
              counters |-> counters2]
        ELSE IF type_key \in DOMAIN structured_map
        THEN [rep      |-> Token("tag", structured_map[type_key].cat,
                                 structured_map[type_key].path, num, <<>>),
              counters |-> counters2]
        ELSE [rep      |-> Token("tag", type_key, "wanzhengmingcheng", num, <<>>),
              counters |-> counters2]

\* RedactionContext.set_structured_mapping; mapping lists the
\* <<tag, value>> pairs in iteration order
RECURSIVE set_structured_mapping(_, _)
set_structured_mapping(mapping, tag_map) ==
    IF mapping = <<>> THEN tag_map
    ELSE LET tag   == Head(mapping)[1]
             value == Head(mapping)[2]
         IN  set_structured_mapping(Tail(mapping),
                 IF value # <<>> /\ value \notin DOMAIN tag_map
                 THEN Put(tag_map, value, TagString(tag.label, tag.n))
                 ELSE tag_map)

\* RedactionContext.get_replacement: the string returned and the fields of
\* the context afterwards
get_replacement(entity) ==
    LET key  == entity_key(entity)
        smart == generate_smart_replacement(entity, type_counters)
        dflt == IF entity.replacement # "" 
                THEN [rep |-> Literal(entity.replacement), counters |-> type_counters]
                ELSE smart
        gen  == CASE rmode = "custom" ->
                       [rep      |-> IF entity.text \in DOMAIN custom_replacements
                                     THEN Literal(custom_replacements[entity.text])
                                     ELSE dflt.rep,
                        counters |-> dflt.counters]
                  [] rmode = "mask" ->
                       [rep      |-> generate_mask_replacement(entity),
                        counters |-> type_counters]
                  [] rmode = "structured" ->
                       generate_structured_replacement(entity, type_counters,
                                                       structured_tag_map)
                  [] OTHER -> smart
    IN  IF key \in DOMAIN coref_map
        THEN [rep        |-> coref_map[key],
              coref_map  |-> coref_map,
              entity_map |-> entity_map,
              counters   |-> type_counters,
              generated  |-> generated]
        ELSE [rep        |-> gen.rep,
              coref_map  |-> Put(coref_map, key, gen.rep),
              entity_map |-> IF entity.text \in DOMAIN entity_map THEN entity_map
                             ELSE Put(entity_map, entity.text, gen.rep),
              counters   |-> gen.counters,
              generated  |-> Append(generated,
                                [key  |-> key,  text |-> entity.text,
                                 type |-> entity.type, returned |-> gen.rep])]

\* ---- a redaction run -----------------------------------------------------
ReplacementModes == {"smart", "mask", "custom", "structured"}

RedactTexts   == {<<1>>, <<2>>}
RedactTypes   == {"LEGAL_PARTY", "LAWYER", "MONEY"}
RedactTag     == [label |-> "renwu", n |-> 1]
RedactCorefs  == {NoCoref, Coref03d(1), Coref03d(2), TagCoref(RedactTag)}
RedactEntities ==
    {[text |-> t, type |-> ty, coref_id |-> c, replacement |-> r] :
        t \in RedactTexts, ty \in RedactTypes, c \in RedactCorefs,
        r \in {"", "Y"}}

\* config.custom_replacements
CustomChoices == {<<>>, (<<1>> :> "X")}
\* the mapping of has_service.hide_text (empty: not asked, or failed)
MappingChoices == {<<>>, << <<RedactTag, <<1>>>> >>}

\* Redactor.redact up to the call of the writer
Redact(mode, custom, mapping) ==
    /\ rmode = "none"
    /\ rmode' = mode
    /\ custom_replacements' = custom
    /\ structured_tag_map' =
          IF mode = "structured" THEN set_structured_mapping(mapping, <<>>)
          ELSE <<>>
    /\ UNCHANGED <<coref_map, entity_map, type_counters, replacements,
                   generated, log, textVars, fuseVars, restVars>>

\* one turn of the loop that builds `replacements` in _redact_docx and
\* _redact_pdf_text; the writer then puts replacements[entity.text] in the
\* place of every occurrence of entity.text
RedactEntity(entity) ==
    /\ rmode # "none"
    /\ Cardinality(log) < MaxEntities
    /\ LET r == get_replacement(entity)
       IN  IF entity.text \notin DOMAIN replacements
           THEN /\ replacements'  = Put(replacements, entity.text, r.rep)
                /\ coref_map'     = r.coref_map
                /\ entity_map'    = r.entity_map
                /\ type_counters' = r.counters
                /\ generated'     = r.generated
           ELSE UNCHANGED <<replacements, coref_map, entity_map,
                            type_counters, generated>>
    /\ log' = log \cup {[coref_id |-> entity.coref_id,
                         text     |-> entity.text,
                         received |-> replacements'[entity.text]]}
    /\ UNCHANGED <<rmode, custom_replacements, structured_tag_map,
                   textVars, fuseVars, restVars>>

NextRedact ==
    \/ \E mode \in ReplacementModes, custom \in CustomChoices,
          mapping \in MappingChoices : Redact(mode, custom, mapping)
    \/ \E entity \in RedactEntities : RedactEntity(entity)

SpecRedact == InitExtract /\ [][NextRedact]_vars

\* ---- get_replacement called on a context of its own -----------------------
GetReplacementCall(entity) ==
    /\ rmode # "none"
    /\ LET r == get_replacement(entity)
       IN  /\ coref_map'     = r.coref_map
           /\ entity_map'    = r.entity_map
           /\ type_counters' = r.counters
           /\ generated'     = r.generated
    /\ UNCHANGED <<rmode, custom_replacements, structured_tag_map,
                   replacements, log, textVars, fuseVars, restVars>>

\* RedactionContext(mode) as constructed
NewContext(mode) ==
    /\ rmode = mode
    /\ custom_replacements = <<>>
    /\ structured_tag_map = <<>>
    /\ coref_map = <<>>
    /\ entity_map = <<>>
    /\ type_counters = <<>>
    /\ replacements = <<>>
    /\ generated = <<>>
    /\ log = {}

\* Smart mode, many keys.  The entities are named in the order their keys
\* first appear: the k-th has the text <<k>>, and a coref_id when k is odd,
\* so that its key is the coref_id for odd k and the text for even k.
SmartTypes == {"PERSON", "ORG"}
SmartEntity(k, ty) ==
    [text        |-> <<k>>,
     type        |-> ty,
     coref_id    |-> IF k % 2 = 1 THEN Coref03d(k) ELSE NoCoref,
     replacement |-> ""]

SmartCall(k, ty) ==
    /\ k <= Cardinality(DOMAIN coref_map) + 1
    /\ GetReplacementCall(SmartEntity(k, ty))

InitSmart == TextIdle /\ FuseIdle /\ RestIdle /\ NewContext("smart")
NextSmart == \E k \in 1..MaxKeys, ty \in SmartTypes : SmartCall(k, ty)
SpecSmart == InitSmart /\ [][NextSmart]_vars

\* Mask mode, long texts.  The text of length n is <<1, ..., n>>, so that
\* the characters kept by a mask show where they came from.
MaskTypes == {"PERSON", "PHONE", "ID_CARD", "BANK_CARD", "ADDRESS", "ORG"}
MaskEntities ==
    {[text        |-> [i \in 1..n |-> i],
      type        |-> ty,
      coref_id    |-> NoCoref,
      replacement |-> ""] : n \in 1..MaxMaskLen, ty \in MaskTypes}

\* the first call on a fresh context
MaskCall(entity) ==
    /\ coref_map = <<>>
    /\ GetReplacementCall(entity)

InitMask == TextIdle /\ FuseIdle /\ RestIdle /\ NewContext("mask")
NextMask == \E entity \in MaskEntities : MaskCall(entity)
SpecMask == InitMask /\ [][NextMask]_vars

-----------------------------------------------------------------------------
(* Properties of the replacement engine                                    *)

\* C6: within one redaction run, any two entities with equal coref_id are
\* given the same replacement string.
C6_SameCorefSameReplacement ==
    \A p, q \in log :
        (p.coref_id # NoCoref /\ p.coref_id = q.coref_id)
        => p.received = q.received

\* the numeral C7 expects for k
C7_Numeral(k) ==
    IF k <= 10
    THEN [cn |-> CASE k = 1 -> "yi"  [] k = 2 -> "er" [] k = 3 -> "san"
                   [] k = 4 -> "si"  [] k = 5 -> "wu" [] k = 6 -> "liu"
                   [] k = 7 -> "qi"  [] k = 8 -> "ba" [] k = 9 -> "jiu"
                   [] k = 10 -> "shi",
          dec |-> 0]
    ELSE [cn |-> "", dec |-> k]

GeneratedFor(ty, i) == {j \in 1..i : generated[j].type = ty}

\* C7: in smart mode the k-th distinct key seen for a type receives the
\* type's label followed by the Chinese numeral for k when k <= 10 and the
\* decimal number k when k >= 11; a key already seen does not advance the
\* counter, and the counters of different types are independent.
C7_SmartNumbering ==
    rmode = "smart" =>
        /\ \A i \in 1..Len(generated) :
              LET g == generated[i]
                  k == Cardinality(GeneratedFor(g.type, i))
              IN  /\ g.returned = Token("smart", Get(type_labels, g.type, "minganxinxi"), "",
                                        C7_Numeral(k), <<>>)
                  /\ coref_map[g.key] = g.returned
                  /\ \A j \in 1..(i - 1) : generated[j].key # g.key
        /\ DOMAIN coref_map = {generated[i].key : i \in 1..Len(generated)}
        /\ \A ty \in DOMAIN type_counters :
              type_counters[ty] = Cardinality(GeneratedFor(ty, Len(generated)))

\* the eleventh key of one type was numbered while the other type had keys
\* of its own
C7_Witness ==
    /\ rmode = "smart"
    /\ \E i \in 1..Len(generated) :
          generated[i].returned.dec = 11 /\ generated[i].type = "PERSON"
    /\ "ORG" \in DOMAIN type_counters
    /\ type_counters["ORG"] = 1

\* C8: entity_map is reversible: two different original texts never map to
\* the same replacement.
C8_EntityMapReversible ==
    \A t1, t2 \in DOMAIN entity_map :
        t1 # t2 => entity_map[t1] # entity_map[t2]

\* C9: in mask mode the replacement has the same length as the original
\* text, for every entity type and every text length.
C9_MaskKeepsLength ==
    rmode = "mask" =>
        \A i \in 1..Len(generated) :
            Len(generated[i].returned.s) = Len(generated[i].text)

-----------------------------------------------------------------------------
(***************************************************************************)
(* Part III.  Dual-pipeline fuser                                          *)
(***************************************************************************)

MaxBoxes == 2   \* boxes returned by the two pipelines together
GridSize == 2   \* the page is GridSize x GridSize cells; coordinates and
                \* sizes of boxes are whole cells

\* iou_threshold = 0.3, as a fraction
IouThresholdNum == 3
IouThresholdDen == 10

\* VisionService._calculate_iou, the quotient as (num, den)
calculate_iou(box1, box2) ==
    LET x1 == Max2(box1.x, box2.x)
        y1 == Max2(box1.y, box2.y)
        x2 == Min2(box1.x + box1.width, box2.x + box2.width)
        y2 == Min2(box1.y + box1.height, box2.y + box2.height)
        intersection == (x2 - x1) * (y2 - y1)
        area1 == box1.width * box1.height
        area2 == box2.width * box2.height
        union == area1 + area2 - intersection
    IN  IF x2 <= x1 \/ y2 <= y1 THEN [num |-> 0, den |-> 1]
        ELSE IF union <= 0 THEN [num |-> 0, den |-> 1]
        ELSE [num |-> intersection, den |-> union]

\* iou > iou_threshold
AboveThreshold(iou) == iou.num * IouThresholdDen > IouThresholdNum * iou.den

\* the loop over other_boxes of _deduplicate_boxes
RECURSIVE DedupOthers(_, _)
DedupOthers(other_boxes, res) ==
    IF other_boxes = <<>> THEN res
    ELSE LET other_box == Head(other_boxes)
             is_duplicate ==
                 \E i \in 1..Len(res) :
                     AboveThreshold(calculate_iou(other_box, res[i]))
         IN  DedupOthers(Tail(other_boxes),
                         IF is_duplicate THEN res ELSE Append(res, other_box))

\* deduplicate_boxes returning early for two boxes as well
deduplicate_boxes_UpToTwo(boxes) ==
    IF Len(boxes) <= 2 THEN boxes
    ELSE LET ocr_boxes   == SelectSeq(boxes, LAMBDA b : b.source = "ocr_has")
             glm_boxes   == SelectSeq(boxes, LAMBDA b : b.source = "glm_vision")
             other_boxes == SelectSeq(boxes, LAMBDA b :
                                b.source \notin {"ocr_has", "glm_vision"})
             kept_glm    == SelectSeq(glm_boxes, LAMBDA glm_box :
                                ~\E i \in 1..Len(ocr_boxes) :
                                    AboveThreshold(calculate_iou(glm_box, ocr_boxes[i])))
         IN  DedupOthers(other_boxes, ocr_boxes \o kept_glm)

\* deduplicate_boxes putting the surviving GLM boxes before the OCR boxes
deduplicate_boxes_GlmFirst(boxes) ==
    IF Len(boxes) <= 1 THEN boxes
    ELSE LET ocr_boxes   == SelectSeq(boxes, LAMBDA b : b.source = "ocr_has")
             glm_boxes   == SelectSeq(boxes, LAMBDA b : b.source = "glm_vision")
             other_boxes == SelectSeq(boxes, LAMBDA b :
                                b.source \notin {"ocr_has", "glm_vision"})
             kept_glm    == SelectSeq(glm_boxes, LAMBDA glm_box :
                                ~\E i \in 1..Len(ocr_boxes) :
                                    AboveThreshold(calculate_iou(glm_box, ocr_boxes[i])))
         IN  DedupOthers(other_boxes, kept_glm \o ocr_boxes)

\* VisionService._deduplicate_boxes
deduplicate_boxes(boxes) ==
    IF Len(boxes) <= 1 THEN boxes
    ELSE LET ocr_boxes   == SelectSeq(boxes, LAMBDA b : b.source = "ocr_has")
             glm_boxes   == SelectSeq(boxes, LAMBDA b : b.source = "glm_vision")
             other_boxes == SelectSeq(boxes, LAMBDA b :
                                b.source \notin {"ocr_has", "glm_vision"})
             kept_glm    == SelectSeq(glm_boxes, LAMBDA glm_box :
                                ~\E i \in 1..Len(ocr_boxes) :
                                    AboveThreshold(calculate_iou(glm_box, ocr_boxes[i])))
         IN  DedupOthers(other_boxes, ocr_boxes \o kept_glm)

\* the regions a pipeline can report
Regions ==
    {r \in [x : 0..(GridSize - 1), y : 0..(GridSize - 1),
            width : 1..GridSize, height : 1..GridSize] :
        r.x + r.width <= GridSize /\ r.y + r.height <= GridSize}

\* the BoundingBox list a pipeline builds from its regions
ToBoxes(regions, pfx, source) ==
    [i \in 1..Len(regions) |->
        [id     |-> [pfx |-> pfx, n |-> i - 1],
         x      |-> regions[i].x,
         y      |-> regions[i].y,
         width  |-> regions[i].width,
         height |-> regions[i].height,
         source |-> source]]

\* a type-list argument: None, or a list of type ids
NoneTypes == [none |-> TRUE, ids |-> <<>>]
TypeList(ids) == [none |-> FALSE, ids |-> ids]

\* truth value of a type-list argument in `if ocr_has_types:`
Truthy(types) == ~types.none /\ Len(types.ids) > 0

\* the type lists detect_sensitive_regions can end up with
SelectedTypeLists == {<<>>, <<"SEAL">>}

\* FileType
FileTypes == {"doc", "docx", "pdf", "pdf_scanned", "image"}

\* detect_with_dual_pipeline up to asyncio.gather: the page image is read
\* (ValueError for a file type that has none), then a task is created per
\* pipeline whose type list is not empty
DetectWithDualPipeline(file_type, ocr_types, glm_types) ==
    /\ fpc = "idle"
    /\ ocr_has_types' = ocr_types
    /\ glm_vision_types' = glm_types
    /\ ocr_result' = <<>>
    /\ glm_result' = <<>>
    /\ fused' = <<>>
    /\ perf_log' = <<>>
    /\ IF file_type \in {"image", "pdf", "pdf_scanned"}
       THEN /\ ocr_task' = IF Truthy(ocr_types) THEN "running" ELSE "none"
            /\ glm_task' = IF Truthy(glm_types) THEN "running" ELSE "none"
            /\ fpc' = "gather"
       ELSE /\ ocr_task' = "none"
            /\ glm_task' = "none"
            /\ fpc' = "raised"
    /\ UNCHANGED <<textVars, redactVars, restVars>>

\* detect_sensitive_regions: a pipeline is handed its type list when the
\* pipeline is enabled and the list is not empty, and None otherwise
DetectSensitiveRegions(file_type, ocr_pipeline_enabled, ocr_types, glm_pipeline_enabled, glm_types) ==
    LET ocr_has_enabled    == ocr_pipeline_enabled /\ Len(ocr_types) > 0
        glm_vision_enabled == glm_pipeline_enabled /\ Len(glm_types) > 0
    IN  /\ selected_ocr_has_types' = ocr_types
        /\ selected_glm_vision_types' = glm_types
        /\ DetectWithDualPipeline(
               file_type,
               IF ocr_has_enabled THEN TypeList(ocr_types) ELSE NoneTypes,
               IF glm_vision_enabled THEN TypeList(glm_types) ELSE NoneTypes)

\* the task of _detect_with_ocr_has ends, with boxes or with an exception;
\* `timed` prints its [PERF] line either way
DetectWithOcrHas ==
    /\ fpc = "gather"
    /\ ocr_task = "running"
    /\ \/ \E regions \in SeqsUpTo(Regions, MaxBoxes - Len(glm_result)) :
             /\ ocr_result' = ToBoxes(regions, "ocr", "ocr_has")
             /\ ocr_task' = "done"
       \/ /\ ocr_task' = "failed"
          /\ UNCHANGED ocr_result
    /\ perf_log' = Append(perf_log, "ocr_has")
    /\ UNCHANGED <<fpc, selected_ocr_has_types, selected_glm_vision_types,
                   ocr_has_types, glm_vision_types, glm_task, glm_result,
                   fused, textVars, redactVars, restVars>>

\* the task of _detect_with_glm ends, with boxes or with an exception;
\* `timed` prints its [PERF] line either way
DetectWithGlm ==
    /\ fpc = "gather"
    /\ glm_task = "running"
    /\ \/ \E regions \in SeqsUpTo(Regions, MaxBoxes - Len(ocr_result)) :
             /\ glm_result' = ToBoxes(regions, "glm", "glm_vision")
             /\ glm_task' = "done"
       \/ /\ glm_task' = "failed"
          /\ UNCHANGED glm_result
    /\ perf_log' = Append(perf_log, "glm_vision")
    /\ UNCHANGED <<fpc, selected_ocr_has_types, selected_glm_vision_types,
                   ocr_has_types, glm_vision_types, ocr_task, ocr_result,
                   fused, textVars, redactVars, restVars>>

\* Fuse with a gather that lets the exception of a task through
Fuse_Propagates ==
    /\ fpc = "gather"
    /\ ocr_task # "running"
    /\ glm_task # "running"
    /\ IF ocr_task = "failed" \/ glm_task = "failed"
       THEN /\ fused' = <<>>
            /\ fpc' = "raised"
       ELSE /\ fused' = deduplicate_boxes(ocr_result \o glm_result)
            /\ fpc' = "done"
    /\ UNCHANGED <<selected_ocr_has_types, selected_glm_vision_types,
                   ocr_has_types, glm_vision_types, ocr_task, glm_task,
                   ocr_result, glm_result, perf_log, textVars, redactVars, restVars>>

\* after gather: all_boxes collects the results of the tasks that did not
\* fail, OCR+HaS first, and is deduplicated
Fuse ==
    /\ fpc = "gather"
    /\ ocr_task # "running"
    /\ glm_task # "running"
    /\ LET all_boxes == (IF ocr_task = "done" THEN ocr_result ELSE <<>>)
                        \o (IF glm_task = "done" THEN glm_result ELSE <<>>)
       IN  fused' = deduplicate_boxes(all_boxes)
    /\ fpc' = "done"
    /\ UNCHANGED <<selected_ocr_has_types, selected_glm_vision_types,
                   ocr_has_types, glm_vision_types, ocr_task, glm_task,
                   ocr_result, glm_result, perf_log, textVars, redactVars, restVars>>

NextFuse ==
    \/ \E file_type \in FileTypes,
          ocr_pipeline_enabled \in BOOLEAN, ocr_types \in SelectedTypeLists,
          glm_pipeline_enabled \in BOOLEAN, glm_types \in SelectedTypeLists :
          DetectSensitiveRegions(file_type, ocr_pipeline_enabled, ocr_types,
                                 glm_pipeline_enabled, glm_types)
    \/ DetectWithOcrHas
    \/ DetectWithGlm
    \/ Fuse

SpecFuse == InitExtract /\ [][NextFuse]_vars

\* the same machine, for the properties of the request as a whole: which
\* pipelines run, in which order they end, and what a failure does
SpecDetect == InitExtract /\ [][NextFuse]_vars

-----------------------------------------------------------------------------
(* Properties of the fuser                                                 *)

\* intersection over union of two boxes exceeds 3/10, computed on the
\* rectangles themselves
C10_Cells(b) ==
    {<<i, j>> \in (0..(GridSize - 1)) \X (0..(GridSize - 1)) :
        /\ b.x <= i /\ i < b.x + b.width
        /\ b.y <= j /\ j < b.y + b.height}
C10_Overlapping(a, b) ==
    10 * Cardinality(C10_Cells(a) \cap C10_Cells(b))
        > 3 * Cardinality(C10_Cells(a) \cup C10_Cells(b))

\* C10: after fusion no retained glm_vision box has IoU > 0.3 with any
\* retained ocr_has box.
C10_NoGlmOverOcr ==
    fpc = "done" =>
        \A i, j \in 1..Len(fused) :
            (fused[i].source = "glm_vision" /\ fused[j].source = "ocr_has")
            => ~C10_Overlapping(fused[i], fused[j])

\* a GLM box was dropped for the OCR box it overlaps above the threshold
C10_Witness ==
    /\ fpc = "done"
    /\ \E k \in 1..Len(glm_result), j \in 1..Len(fused) :
          /\ fused[j].source = "ocr_has"
          /\ C10_Overlapping(glm_result[k], fused[j])
          /\ \A i \in 1..Len(fused) : fused[i] # glm_result[k]

\* the GLM boxes of a pipeline result that overlap none of the OCR boxes
C11_Surviving(glm, ocr) ==
    SelectSeq(glm, LAMBDA g :
        \A j \in 1..Len(ocr) : ~C10_Overlapping(g, ocr[j]))

\* C11: the fused list is every ocr_has box in the order the OCR pipeline
\* produced them, followed by the surviving glm_vision boxes in the order
\* the VLM pipeline produced them, whichever pipeline completes first.
C11_OcrThenGlmInOrder ==
    fpc = "done" =>
        fused = ocr_result \o C11_Surviving(glm_result, ocr_result)

\* the GLM pipeline finished before the OCR pipeline, both returned a box,
\* and both boxes are in the fused list
C11_Witness ==
    /\ fpc = "done"
    /\ perf_log = <<"glm_vision", "ocr_has">>
    /\ Len(ocr_result) >= 1
    /\ Len(glm_result) >= 1
    /\ Len(fused) = Len(ocr_result) + Len(glm_result)

\* the pipeline with this argument, list, task and label was not run
C12_NotRun(types, selected, task, label) ==
    (~Truthy(types) \/ selected = <<>>) =>
        /\ task = "none"
        /\ \A i \in 1..Len(perf_log) : perf_log[i] # label

C12_WitnessSkipped ==
    /\ fpc = "done"
    /\ selected_ocr_has_types = <<>>
    /\ glm_vision_types.none
    /\ selected_glm_vision_types # <<>>
    /\ fused = <<>>

-----------------------------------------------------------------------------
(* Part IV.  Box geometry of the vision pipelines                          *)
(*                                                                         *)
(* A raw VLM coordinate is a number of halves (RawDen = 2), so that 1      *)
(* stands for 0.5.  A unit coordinate is a fraction: the fields x and      *)
(* width of a box are numerators over dx, y and height over dy.            *)

MaxRawBoxes == 2   \* boxes in one VLM answer

RawDen == 2

\* COORD_MODE
COORD_MODE == 1000

\* the page images: a 2000 x 1500 scan, and 1000 x 1000 (also the size
\* assumed when the image cannot be opened)
Images == {[w |-> 2000, h |-> 1500], [w |-> COORD_MODE, h |-> COORD_MODE]}

\* the box_2d values a VLM can answer with, in halves: a box is a horizontal
\* span and a vertical span.  The spans are 0..0.5 (unit coordinates),
\* 50..450 and 50..250 (the 0-1000 grid, or pixels of a large image),
\* 450..50 (corners swapped) and 1100..1400 (beyond the grid)
RawXSpans == {<<0, 1>>, <<100, 900>>, <<900, 100>>, <<2200, 2800>>}
RawYSpans == {<<0, 1>>, <<100, 500>>}
RawBoxes == {<<xs[1], ys[1], xs[2], ys[2]>> : xs \in RawXSpans, ys \in RawYSpans}

\* _normalize_box: (x1, y1, x2, y2) of the raw box under a convention, as
\* numerators x1, x2 over dx and y1, y2 over dy; ok is FALSE for None
normalize_box(raw_box, mode, coord_base, img_w, img_h) ==
    LET xmin == Min2(raw_box[1], raw_box[3])
        xmax == Max2(raw_box[1], raw_box[3])
        ymin == Min2(raw_box[2], raw_box[4])
        ymax == Max2(raw_box[2], raw_box[4])
        none == [ok |-> FALSE, x1 |-> 0, x2 |-> 0, dx |-> 1,
                 y1 |-> 0, y2 |-> 0, dy |-> 1]
        \* img_w * scale and img_h * scale for scale = min(base/w, base/h)
        sw == (coord_base * img_w) \div Max2(img_w, img_h)
        sh == (coord_base * img_h) \div Max2(img_w, img_h)
    IN  CASE mode = "pixel" ->
               [ok |-> TRUE,
                x1 |-> xmin, x2 |-> xmax, dx |-> RawDen * Max2(img_w, 1),
                y1 |-> ymin, y2 |-> ymax, dy |-> RawDen * Max2(img_h, 1)]
          [] mode = "normalized" ->
               [ok |-> TRUE,
                x1 |-> xmin, x2 |-> xmax, dx |-> RawDen,
                y1 |-> ymin, y2 |-> ymax, dy |-> RawDen]
          [] mode = "coord_square" ->
               [ok |-> TRUE,
                x1 |-> xmin, x2 |-> xmax, dx |-> RawDen * coord_base,
                y1 |-> ymin, y2 |-> ymax, dy |-> RawDen * coord_base]
          [] mode = "coord_square_letterbox" ->
               IF img_w <= 0 \/ img_h <= 0 THEN none
               ELSE \* (raw - pad) / (img * scale), pad = (base - img * scale) / 2
                    [ok |-> TRUE,
                     x1 |-> 2 * xmin - RawDen * (coord_base - sw),
                     x2 |-> 2 * xmax - RawDen * (coord_base - sw),
                     dx |-> 2 * RawDen * sw,
                     y1 |-> 2 * ymin - RawDen * (coord_base - sh),
                     y2 |-> 2 * ymax - RawDen * (coord_base - sh),
                     dy |-> 2 * RawDen * sh]
          [] OTHER -> none

\* the test of score_mode on one box
ScoresOne(norm) ==
    LET w == norm.x2 - norm.x1
        h == norm.y2 - norm.y1
    IN  /\ norm.ok
        /\ ~(50 * norm.x1 < -norm.dx \/ 50 * norm.y1 < -norm.dy
             \/ norm.x2 <= norm.x1 \/ norm.y2 <= norm.y1)
        /\ ~(50 * norm.x2 > 51 * norm.dx \/ 50 * norm.y2 > 51 * norm.dy)
        /\ ~(1000 * w < 3 * norm.dx \/ 1000 * h < 3 * norm.dy
             \/ 50 * w > 49 * norm.dx \/ 50 * h > 49 * norm.dy)

\* score_mode
score_mode(raws, mode, coord_base, img_w, img_h) ==
    Cardinality({i \in 1..Len(raws) :
        ScoresOne(normalize_box(raws[i], mode, coord_base, img_w, img_h))})

\* the `candidates` list; base 0 stands for COORD_MODE
candidates ==
    <<[mode |-> "pixel", base |-> 0],
      [mode |-> "normalized", base |-> 0],
      [mode |-> "coord_square", base |-> COORD_MODE],
      [mode |-> "coord_square_letterbox", base |-> COORD_MODE],
      [mode |-> "coord_square", base |-> 1024],
      [mode |-> "coord_square_letterbox", base |-> 1024]>>

BaseOf(c) == IF c.base # 0 THEN c.base ELSE COORD_MODE

\* the second component of the sort key of `scored`
SquareFlag(mode) ==
    IF mode \in {"coord_square", "coord_square_letterbox"} THEN 0 ELSE 1

\* key of candidate a is strictly greater than the key of candidate b
KeyGreater(sa, a, sb, b) ==
    sa > sb \/ (sa = sb /\ SquareFlag(a.mode) > SquareFlag(b.mode))

\* the scores of the `scored` list, candidate by candidate
RECURSIVE Scored(_, _, _, _)
Scored(cands, raws, img_w, img_h) ==
    IF cands = <<>> THEN <<>>
    ELSE <<score_mode(raws, Head(cands).mode, BaseOf(Head(cands)), img_w, img_h)>>
         \o Scored(Tail(cands), raws, img_w, img_h)

\* scored.sort(key=..., reverse=True)[0]: the sort is stable, so the first
\* element is the earliest candidate whose key no other key exceeds
BestCandidate(raws, img_w, img_h) ==
    LET s    == Scored(candidates, raws, img_w, img_h)
        best == CHOOSE i \in 1..Len(candidates) :
                    /\ \A j \in 1..Len(candidates) :
                          ~KeyGreater(s[j], candidates[j], s[i], candidates[i])
                    /\ \A j \in 1..(i - 1) :
                          KeyGreater(s[i], candidates[i], s[j], candidates[j])
    IN  candidates[best]

\* the loop of vision_detect_direct over the objects of the answer: normalize
\* under the chosen convention, drop abnormal sizes, clamp
RECURSIVE DirectBoxes(_, _, _, _, _)
DirectBoxes(raws, mode, coord_base, img_w, img_h) ==
    IF raws = <<>> THEN <<>>
    ELSE LET norm == normalize_box(Head(raws), mode, coord_base, img_w, img_h)
             w    == norm.x2 - norm.x1
             h    == norm.y2 - norm.y1
             x1   == Max2(0, Min2(norm.dx, norm.x1))
             y1   == Max2(0, Min2(norm.dy, norm.y1))
             rest == DirectBoxes(Tail(raws), mode, coord_base, img_w, img_h)
         IN  IF ~norm.ok THEN rest
             ELSE IF \/ 200 * w < norm.dx \/ 200 * h < norm.dy
                     \/ 20 * w > 19 * norm.dx \/ 20 * h > 19 * norm.dy
                  THEN rest
             ELSE <<[x      |-> x1,
                     width  |-> Min2(norm.dx - x1, Max2(0, w)),
                     dx     |-> norm.dx,
                     y      |-> y1,
                     height |-> Min2(norm.dy - y1, Max2(0, h)),
                     dy     |-> norm.dy,
                     source |-> "glm_vision"]>> \o rest

\* GLMClient.vision_detect_direct (local model branch) followed by the copy
\* of the boxes in VisionService._detect_with_glm
VisionDetectDirect ==
    /\ gpc = "idle"
    /\ \E img \in Images, raws \in SeqsUpTo(RawBoxes, MaxRawBoxes) :
          LET best == BestCandidate(raws, img.w, img.h)
          IN  /\ image_size' = img
              /\ raw_boxes' = raws
              /\ coord_mode' = [mode |-> best.mode, base |-> BaseOf(best)]
              /\ bounding_boxes' =
                     DirectBoxes(raws, best.mode, BaseOf(best), img.w, img.h)
    /\ gpc' = "glm_vision"
    /\ UNCHANGED <<textVars, redactVars, fuseVars, typeVars, confVars>>

\* what int(item.x * width), int(item.y * height), int(item.width * width)
\* and int(item.height * height) can be for the items the OCR service
\* returns, on the 2000 x 1500 image
OcrItems ==
    [left : {-10, 0, 1970, 2010}, top : {0, 1490},
     w : {0, 30, 2100}, h : {0, 40}]

\* _run_ocr_service: the block of an item, clamped to the image
ClampBlock(item, img) ==
    LET right0  == Max2(item.left + Max2(item.w, 1), item.left + 1)
        bottom0 == Max2(item.top + Max2(item.h, 1), item.top + 1)
        left    == Max2(0, Min2(item.left, img.w - 1))
        top     == Max2(0, Min2(item.top, img.h - 1))
        right   == Max2(left + 1, Min2(right0, img.w))
        bottom  == Max2(top + 1, Min2(bottom0, img.h))
    IN  [left |-> left, top |-> top,
         width |-> right - left, height |-> bottom - top]

\* lengths of a block text, and the mentions found in a text of that length
TextLens == {1, 3, 101}
MentionSpots(text_len) ==
    {m \in [start_pos : 0..Min2(text_len - 1, 2), entity_len : 1..3] :
        m.start_pos + m.entity_len <= text_len}

\* _match_entities_to_ocr, exact containment: the region of a mention inside
\* its block (int() of a non-negative value is the floor)
SubRegion(block, text_len, start_pos, entity_len, is_multi_field) ==
    LET whole     == [left |-> block.left, width |-> block.width]
        sub_left  == block.left + (start_pos * block.width) \div text_len
        sub_width == Max2((entity_len * block.width) \div text_len, 20)
        sub == IF \/ text_len > 100
                  \/ 10 * entity_len < text_len
                  \/ is_multi_field
               THEN whole
               ELSE IF text_len > 0
                    THEN IF 10 * entity_len > 8 * text_len THEN whole
                         ELSE [left |-> sub_left, width |-> sub_width]
                    ELSE whole
    IN  [left |-> sub.left, top |-> block.top,
         width |-> sub.width, height |-> block.height]

\* _detect_with_ocr_has: the BoundingBox of a region
RegionToBox(region, img) ==
    [x      |-> region.left,
     width  |-> region.width,
     dx     |-> img.w,
     y      |-> region.top,
     height |-> region.height,
     dy     |-> img.h,
     source |-> "ocr_has"]

\* the OCR+HaS pipeline on an image with one text block and one mention:
\* _run_ocr_service, _match_entities_to_ocr, _detect_with_ocr_has
DetectOcrRegion ==
    /\ gpc = "idle"
    /\ \E item \in OcrItems, text_len \in TextLens, is_multi_field \in BOOLEAN :
       \E m \in MentionSpots(text_len) :
          LET img    == [w |-> 2000, h |-> 1500]
              block  == ClampBlock(item, img)
              region == SubRegion(block, text_len, m.start_pos, m.entity_len,
                                  is_multi_field)
          IN  /\ image_size' = img
              /\ bounding_boxes' = <<RegionToBox(region, img)>>
    /\ gpc' = "ocr_has"
    /\ UNCHANGED <<raw_boxes, coord_mode, textVars, redactVars, fuseVars,
                   typeVars, confVars>>

NextGeometry ==
    \/ VisionDetectDirect
    \/ DetectOcrRegion

SpecGeometry == InitExtract /\ [][NextGeometry]_vars

-----------------------------------------------------------------------------
(* Properties of the box geometry                                          *)

\* C13: every bounding box returned by vision detection has x >= 0, y >= 0,
\* width > 0, height > 0, x + width <= 1 and y + height <= 1, whatever raw
\* coordinates the OCR or the VLM returned.
C13_BoxInsideUnitSquare ==
    \A i \in 1..Len(bounding_boxes) :
        LET b == bounding_boxes[i]
        IN  /\ b.x >= 0
            /\ b.y >= 0
            /\ b.width > 0
            /\ b.height > 0
            /\ b.x + b.width <= b.dx
            /\ b.y + b.height <= b.dy

\* the score of a convention on the boxes of the answer
C14_Score(c) ==
    score_mode(raw_boxes, c.mode, BaseOf(c), image_size.w, image_size.h)

\* the candidates, and the conventions named coord_square
C14_Candidates == {candidates[i] : i \in 1..Len(candidates)}
C14_Square == {"coord_square", "coord_square_letterbox"}

\* C14: the coordinate normalizer applies the convention with the highest
\* score, and when a coord_square convention ties for the highest score with
\* pixel or normalized, a coord_square convention is the one applied.
C14_HighestScoreSquareFirst ==
    (gpc = "glm_vision" /\ raw_boxes # <<>>) =>
        /\ \A c \in C14_Candidates : C14_Score(coord_mode) >= C14_Score(c)
        /\ (\E c \in C14_Candidates :
                /\ c.mode \in C14_Square
                /\ C14_Score(c) = C14_Score(coord_mode))
           => coord_mode.mode \in C14_Square

-----------------------------------------------------------------------------
(* Part V.  Types of the boxes of the vision pipelines                     *)
(*                                                                         *)
(* A string is a sequence of tokens, one token per Chinese character       *)
(* (written in pinyin), per ASCII word and per punctuation mark.  Type ids *)
(* are strings too: SEAL is <<"SEAL">>, QR_CODE is <<"QR", "_", "CODE">>.  *)

MaxTypedBoxes == 2   \* objects in one VLM answer, labels in one NER answer

\* str.upper() and str.lower(), token by token
UpperTok(tok) ==
    CASE tok = "seal" -> "SEAL"
      [] tok = "signature" -> "SIGNATURE"
      [] tok = "fingerprint" -> "FINGERPRINT"
      [] tok = "watermark" -> "WATERMARK"
      [] OTHER -> tok
LowerTok(tok) ==
    CASE tok = "SEAL" -> "seal"
      [] tok = "SIGNATURE" -> "signature"
      [] tok = "FINGERPRINT" -> "fingerprint"
      [] tok = "WATERMARK" -> "watermark"
      [] tok = "PHOTO" -> "photo"
      [] tok = "QR" -> "qr"
      [] tok = "CODE" -> "code"
      [] OTHER -> tok
UpperStr(s) == [i \in 1..Len(s) |-> UpperTok(s[i])]
LowerStr(s) == [i \in 1..Len(s) |-> LowerTok(s[i])]

\* `needle in hay` of two strings
Contains(hay, needle) ==
    \E i \in 0..(Len(hay) - Len(needle)) :
        \A j \in 1..Len(needle) : hay[i + j] = needle[j]

\* the type ids
SEAL        == <<"SEAL">>
SIGNATURE   == <<"SIGNATURE">>
FINGERPRINT == <<"FINGERPRINT">>
PHOTO       == <<"PHOTO">>
QR_CODE     == <<"QR", "_", "CODE">>
WATERMARK   == <<"WATERMARK">>
PERSON      == <<"PERSON">>
COMPANY     == <<"COMPANY">>
ORG         == <<"ORG">>
PHONE       == <<"PHONE">>

\* GLMClient._normalize_entity_type: the entries of type_mapping for the
\* labels of the model (签名, 公章, 指纹, 手印, 水印 and the ids)
glm_type_mapping ==
    (SIGNATURE :> SIGNATURE) @@ (<<"qian", "ming">> :> SIGNATURE)
    @@ (SEAL :> SEAL) @@ (<<"gong", "zhang">> :> SEAL)
    @@ (FINGERPRINT :> FINGERPRINT) @@ (<<"zhi", "wen">> :> FINGERPRINT)
    @@ (<<"shou", "yin">> :> FINGERPRINT)
    @@ (WATERMARK :> WATERMARK) @@ (<<"shui", "yin">> :> WATERMARK)

normalize_entity_type(type_str) ==
    Get(glm_type_mapping, UpperStr(type_str),
        Get(glm_type_mapping, type_str, type_str))

\* assignment d[k] = v to a dict kept as the list of its (key, value) pairs
\* in insertion order
DictSet(d, k, v) ==
    IF \E i \in 1..Len(d) : d[i][1] = k
    THEN [i \in 1..Len(d) |-> IF d[i][1] = k THEN <<k, v>> ELSE d[i]]
    ELSE Append(d, <<k, v>>)

\* the hint_to_id dict of _detect_with_glm
RECURSIVE HintToId(_, _)
HintToId(pipeline_types, d) ==
    IF pipeline_types = <<>> THEN d
    ELSE LET t    == Head(pipeline_types)
             hint == IF t.description # <<>>
                     THEN t.name \o <<"(">> \o t.description \o <<")">>
                     ELSE t.name
             d1   == DictSet(d, hint, t.id)
             d2   == DictSet(d1, t.name, t.id)
             d3   == IF t.description # <<>>
                     THEN DictSet(d2, t.description, t.id) ELSE d2
         IN  HintToId(Tail(pipeline_types), d3)

\* any(kw in type_lower for kw in kws)
AnyKeyword(type_lower, kws) == \E kw \in kws : Contains(type_lower, kw)

\* map_type_to_id of _detect_with_glm
map_type_to_id(glm_type, pipeline_types) ==
    LET hint_to_id == HintToId(pipeline_types, <<>>)
        direct == {i \in 1..Len(hint_to_id) : hint_to_id[i][1] = glm_type}
        fuzzy  == {i \in 1..Len(hint_to_id) :
                      \/ Contains(glm_type, hint_to_id[i][1])
                      \/ Contains(hint_to_id[i][1], glm_type)}
        type_lower == LowerStr(glm_type)
    IN  IF direct # {} THEN hint_to_id[CHOOSE i \in direct : TRUE][2]
        ELSE IF fuzzy # {}
             THEN hint_to_id[CHOOSE i \in fuzzy : \A j \in fuzzy : i <= j][2]
        ELSE IF AnyKeyword(type_lower,
                    {<<"gong", "zhang">>, <<"yin", "zhang">>, <<"zhang">>,
                     <<"seal">>, <<"stamp">>})
             THEN SEAL
        ELSE IF AnyKeyword(type_lower,
                    {<<"qian", "ming">>, <<"qian", "zi">>, <<"signature">>})
             THEN SIGNATURE
        ELSE IF AnyKeyword(type_lower, {<<"zhi", "wen">>, <<"fingerprint">>})
             THEN FINGERPRINT
        ELSE IF AnyKeyword(type_lower,
                    {<<"zhao", "pian">>, <<"tou", "xiang">>, <<"photo">>})
             THEN PHOTO
        ELSE IF AnyKeyword(type_lower, {<<"er", "wei", "ma">>, <<"qr">>})
             THEN QR_CODE
        ELSE IF pipeline_types # <<>> THEN pipeline_types[1].id
        ELSE glm_type

\* entries of the GLM Vision pipeline: 签名 without a description, and
\* 指纹 described as 手印
SignatureType ==
    [id |-> SIGNATURE, name |-> <<"qian", "ming">>, description |-> <<>>]
FingerprintType ==
    [id |-> FINGERPRINT, name |-> <<"zhi", "wen">>,
     description |-> <<"shou", "yin">>]
GlmTypeLists ==
    {<<SignatureType>>, <<FingerprintType>>,
     <<SignatureType, FingerprintType>>}

\* the `type` of an object in the VLM answer: 签名, 公章, 指纹, 水印,
\* seal, 签名栏
VlmLabels ==
    {<<"qian", "ming">>, <<"gong", "zhang">>, <<"zhi", "wen">>,
     <<"shui", "yin">>, <<"seal">>, <<"qian", "ming", "lan">>}

\* _detect_with_glm: the types of the boxes made from the VLM answer
DetectWithGlmTypes ==
    /\ tpc = "idle"
    /\ \E pipeline_types \in GlmTypeLists,
          labels \in SeqsUpTo(VlmLabels, MaxTypedBoxes) :
          /\ invoked_types' =
                 [i \in 1..Len(pipeline_types) |-> pipeline_types[i].id]
          /\ model_labels' = labels
          /\ box_types' =
                 [i \in 1..Len(labels) |->
                     map_type_to_id(normalize_entity_type(labels[i]),
                                    pipeline_types)]
    /\ tpc' = "glm_vision"
    /\ UNCHANGED <<textVars, redactVars, fuseVars, geomVars, confVars>>

\* id_to_chinese of _run_has_text_analysis: the entries for PERSON, COMPANY,
\* ORG and PHONE.  The dict literal has the key "COMPANY" twice; the later
\* entry, 机构名称, is the one in the dict
id_to_chinese ==
    (PERSON :> <<"ren", "ming">>)
    @@ (COMPANY :> <<"ji", "gou", "ming", "cheng">>)
    @@ (ORG :> <<"ji", "gou", "ming", "cheng">>)
    @@ (PHONE :> <<"dian", "hua", "hao", "ma">>)

VISUAL_ONLY_TYPES == {SEAL, SIGNATURE, FINGERPRINT, PHOTO, QR_CODE, WATERMARK}

\* chinese_to_id: the entries for 人名, 机构名称, 公司名称, 电话号码, 电话
chinese_to_id ==
    (<<"ren", "ming">> :> PERSON)
    @@ (<<"ji", "gou", "ming", "cheng">> :> ORG)
    @@ (<<"gong", "si", "ming", "cheng">> :> COMPANY)
    @@ (<<"dian", "hua", "hao", "ma">> :> PHONE)
    @@ (<<"dian", "hua">> :> PHONE)

\* the chinese_types list handed to the NER model
RECURSIVE ChineseTypes(_, _)
ChineseTypes(vision_types, acc) ==
    IF vision_types = <<>> THEN acc
    ELSE LET vt == Head(vision_types)
             label == Get(id_to_chinese, vt.id, vt.name)
         IN  ChineseTypes(Tail(vision_types),
                 IF vt.id \in VISUAL_ONLY_TYPES THEN acc
                 ELSE IF \E i \in 1..Len(acc) : acc[i] = label THEN acc
                 ELSE Append(acc, label))

\* chinese_to_id with the names of the user-defined types added
ChineseToId(vision_types) ==
    [k \in DOMAIN chinese_to_id
           \cup {vision_types[i].name : i \in
                    {j \in 1..Len(vision_types) :
                        vision_types[j].id \notin DOMAIN id_to_chinese}} |->
        IF \E i \in 1..Len(vision_types) :
              /\ vision_types[i].name = k
              /\ vision_types[i].id \notin DOMAIN id_to_chinese
        THEN LET last == CHOOSE i \in 1..Len(vision_types) :
                            /\ vision_types[i].name = k
                            /\ vision_types[i].id \notin DOMAIN id_to_chinese
                            /\ \A j \in (i + 1)..Len(vision_types) :
                                  ~(/\ vision_types[j].name = k
                                    /\ vision_types[j].id \notin DOMAIN id_to_chinese)
             IN  vision_types[last].id
        ELSE chinese_to_id[k]]

\* type_mapping of _match_entities_to_ocr: the entries for 人名, 机构, 电话,
\* 公司名称
match_type_mapping ==
    (<<"ren", "ming">> :> PERSON)
    @@ (<<"ji", "gou">> :> ORG)
    @@ (<<"dian", "hua">> :> PHONE)
    @@ (<<"gong", "si", "ming", "cheng">> :> ORG)

\* the type of the region of an NER mention: chinese_to_id.get(key,
\* key.upper()) in _run_has_text_analysis, then type_mapping.get(type,
\* type.upper()) in _match_entities_to_ocr
MentionType(entity_type, vision_types) ==
    LET id_map          == ChineseToId(vision_types)
        normalized_type == Get(id_map, entity_type, UpperStr(entity_type))
    IN  Get(match_type_mapping, normalized_type, UpperStr(normalized_type))

\* entries of the OCR+HaS pipeline
PersonType  == [id |-> PERSON, name |-> <<"xing", "ming">>, description |-> <<>>]
CompanyType == [id |-> COMPANY, name |-> <<"gong", "si">>, description |-> <<>>]
SealType    == [id |-> SEAL, name |-> <<"yin", "zhang">>, description |-> <<>>]
OcrTypeLists ==
    {<<PersonType>>, <<CompanyType>>, <<SealType>>, <<PersonType, SealType>>}

\* HaSClient.LEGAL_ENTITY_TYPES: the entries 人名 and 组织
LEGAL_ENTITY_TYPES == <<<<"ren", "ming">>, <<"zu", "zhi">>>>

\* the keys of the NER answer: HaSClient.ner asks the model for
\* chinese_types, or for LEGAL_ENTITY_TYPES when that list is empty, and the
\* model answers with a list of the labels it was asked for
NerAnswers(vision_types) ==
    LET chinese_types == ChineseTypes(vision_types, <<>>)
        types == IF chinese_types # <<>> THEN chinese_types
                 ELSE LEGAL_ENTITY_TYPES
    IN  SeqsUpTo({types[i] : i \in 1..Len(types)}, MaxTypedBoxes)

\* the types the patterns of _apply_regex_rules can match in the model
RegexRuleTypes == {PHONE, COMPANY}

\* the types in a set of ids, in the order of the `patterns` dict
RegexTypes(ids) ==
    (IF PHONE \in ids THEN <<PHONE>> ELSE <<>>)
    \o (IF COMPANY \in ids THEN <<COMPANY>> ELSE <<>>)

\* detect_and_draw and _detect_with_ocr_has: the types of the boxes, for an
\* image with (or without) a seal, an NER answer and the regex types that
\* match in the text
DetectAndDrawTypes ==
    /\ tpc = "idle"
    /\ \E vision_types \in OcrTypeLists, seal \in BOOLEAN,
          matched \in SUBSET RegexRuleTypes :
       \E ner_result \in NerAnswers(vision_types) :
          LET entity_type_ids == {vision_types[i].id : i \in 1..Len(vision_types)}
              visual  == IF seal /\ SEAL \in entity_type_ids
                         THEN <<SEAL>> ELSE <<>>
              matched_regions ==
                  [i \in 1..Len(ner_result) |->
                      MentionType(ner_result[i], vision_types)]
              regex_regions == RegexTypes(matched \cap entity_type_ids)
          IN  /\ invoked_types' =
                     [i \in 1..Len(vision_types) |-> vision_types[i].id]
              /\ model_labels' = ner_result
              /\ box_types' = visual \o matched_regions \o regex_regions
    /\ tpc' = "ocr_has"
    /\ UNCHANGED <<textVars, redactVars, fuseVars, geomVars, confVars>>

NextTypes ==
    \/ DetectWithGlmTypes
    \/ DetectAndDrawTypes

SpecTypes == InitExtract /\ [][NextTypes]_vars

-----------------------------------------------------------------------------
(* Properties of the box types                                             *)

\* C15: every box a vision pipeline emits has a type id that is contained in
\* the enabled-type list the pipeline was invoked with.
C15_TypeEnabled ==
    \A i \in 1..Len(box_types) :
        \E j \in 1..Len(invoked_types) : box_types[i] = invoked_types[j]

-----------------------------------------------------------------------------
(***************************************************************************)
(* Part VI.  Configuration registries                                      *)
(*                                                                         *)
(* The entity-type registry of api/entity_types.py and the pipeline        *)
(* configuration of api/vision_pipeline.py.  Python dicts hold references: *)
(* `objects` is the heap of EntityTypeConfig objects, and the two dicts    *)
(* PRESET_ENTITY_TYPES and entity_types_db map an id to the address of an  *)
(* object.  The object a preset literal constructs has its id for address, *)
(* and so has the object create_entity_type constructs.  Every handler is  *)
(* an `async def` without an await: it runs to its end without            *)
(* interleaving.  Chinese names are written in pinyin.                     *)
(***************************************************************************)

\* the ids a request can name: the presets, the custom ids, and one more
TypeIdArgs == PresetIds \cup CustomIds \cup {"NO_SUCH_TYPE"}

\* the names a request can carry
RequestNames == {"bieming"}

\* UpdateEntityTypeRequest after dict(exclude_unset=True): the fields that
\* were set, and their values
UpdateRequests ==
    [fields : SUBSET {"name", "enabled"},
     name : RequestNames, enabled : BOOLEAN]

\* the registry as a client reads it: id -> field values
Registry(objs, db) == [id \in DOMAIN db |-> objs[db[id]]]

\* GET /custom-types/{type_id}
GetEntityType(type_id) ==
    /\ response' = [op |-> "get_entity_type",
                    status |-> IF type_id \notin DOMAIN entity_types_db
                               THEN 404 ELSE 200]
    /\ UNCHANGED <<objects, entity_types_db>>
    /\ UNCHANGED <<pipeVars, storeVars, detectVars, laterVars>>

\* POST /custom-types
CreateEntityType(uuid, name) ==
    /\ LET type_id == uuid
           new_type == [id |-> type_id, name |-> name,
                        enabled |-> TRUE, order |-> 200]
       IN  /\ objects' = [objects EXCEPT ![type_id] = new_type]
           /\ entity_types_db' =
                  [id \in DOMAIN entity_types_db \cup {type_id} |->
                      IF id = type_id THEN type_id ELSE entity_types_db[id]]
           /\ response' = [op |-> "create_entity_type", status |-> 200]
    /\ UNCHANGED <<pipeVars, storeVars, detectVars, laterVars>>

\* setattr(existing, key, value) for every item of update_data
SetAttrs(existing, update_data) ==
    [existing EXCEPT
        !.name = IF "name" \in update_data.fields
                 THEN update_data.name ELSE @,
        !.enabled = IF "enabled" \in update_data.fields
                    THEN update_data.enabled ELSE @]

\* PUT /custom-types/{type_id}
UpdateEntityType(type_id, request) ==
    /\ IF type_id \notin DOMAIN entity_types_db
       THEN /\ response' = [op |-> "update_entity_type", status |-> 404]
            /\ UNCHANGED <<objects, entity_types_db>>
       ELSE LET existing == entity_types_db[type_id]
            IN  /\ objects' = [objects EXCEPT
                                  ![existing] = SetAttrs(@, request)]
                /\ entity_types_db' =
                       [entity_types_db EXCEPT ![type_id] = existing]
                /\ response' = [op |-> "update_entity_type", status |-> 200]
    /\ UNCHANGED <<pipeVars, storeVars, detectVars, laterVars>>

\* the heap once the objects that neither dict refers to any more are freed
Collect(objs, db) ==
    [a \in DOMAIN objs |->
        IF \E id \in DOMAIN db : db[id] = a THEN objs[a]
        ELSE IF \E id \in DOMAIN PRESET_ENTITY_TYPES :
                   PRESET_ENTITY_TYPES[id] = a
        THEN objs[a] ELSE Unallocated]

\* a delete that forgets the preset check
DeleteEntityType_NoPresetCheck(type_id) ==
    /\ IF type_id \notin DOMAIN entity_types_db
       THEN /\ response' = [op |-> "delete_entity_type", status |-> 404]
            /\ UNCHANGED <<objects, entity_types_db>>
       ELSE /\ entity_types_db' =
                   [id \in DOMAIN entity_types_db \ {type_id} |->
                       entity_types_db[id]]
            /\ objects' = Collect(objects, entity_types_db')
            /\ response' = [op |-> "delete_entity_type", status |-> 200]
    /\ UNCHANGED <<pipeVars, storeVars, detectVars, laterVars>>

\* DELETE /custom-types/{type_id}
DeleteEntityType(type_id) ==
    /\ IF type_id \notin DOMAIN entity_types_db
       THEN /\ response' = [op |-> "delete_entity_type", status |-> 404]
            /\ UNCHANGED <<objects, entity_types_db>>
       ELSE IF type_id \in DOMAIN PRESET_ENTITY_TYPES
       THEN /\ response' = [op |-> "delete_entity_type", status |-> 400]
            /\ UNCHANGED <<objects, entity_types_db>>
       ELSE /\ entity_types_db' =
                   [id \in DOMAIN entity_types_db \ {type_id} |->
                       entity_types_db[id]]
            /\ objects' = Collect(objects, entity_types_db')
            /\ response' = [op |-> "delete_entity_type", status |-> 200]
    /\ UNCHANGED <<pipeVars, storeVars, detectVars, laterVars>>

\* POST /custom-types/{type_id}/toggle
ToggleEntityType(type_id) ==
    /\ IF type_id \notin DOMAIN entity_types_db
       THEN /\ response' = [op |-> "toggle_entity_type", status |-> 404]
            /\ UNCHANGED <<objects, entity_types_db>>
       ELSE /\ objects' = [objects EXCEPT
                              ![entity_types_db[type_id]].enabled = ~@]
            /\ response' = [op |-> "toggle_entity_type", status |-> 200]
            /\ UNCHANGED entity_types_db
    /\ UNCHANGED <<pipeVars, storeVars, detectVars, laterVars>>

\* POST /custom-types/reset: dict.copy() copies the references
ResetEntityTypes ==
    /\ entity_types_db' = PRESET_ENTITY_TYPES
    /\ objects' = Collect(objects, entity_types_db')
    /\ response' = [op |-> "reset_entity_types", status |-> 200]

    /\ UNCHANGED <<pipeVars, storeVars, detectVars, laterVars>>

\* ---- the pipeline configuration ------------------------------------------
\* the `mode` and `type_id` path parameters, and the request bodies
ModeArgs == DOMAIN PRESET_PIPELINES \cup {"cloud"}
PipelineTypeIdArgs == {"PERSON", "SIGNATURE", "MY_TYPE"}
PipelineTypeRequests == [id : {"MY_TYPE"}, enabled : BOOLEAN]

\* the t.id of a types list
TypeIdsOf(types) == {types[i].id : i \in 1..Len(types)}

\* [t for t in types if t.id != type_id]
RECURSIVE WithoutType(_, _)
WithoutType(types, type_id) ==
    IF types = <<>> THEN <<>>
    ELSE (IF Head(types).id # type_id THEN <<Head(types)>> ELSE <<>>)
         \o WithoutType(Tail(types), type_id)

\* the index of the first t with t.id == type_id (0: none)
FirstIndex(types, type_id) ==
    IF type_id \notin TypeIdsOf(types) THEN 0
    ELSE CHOOSE i \in 1..Len(types) :
            /\ types[i].id = type_id
            /\ \A j \in 1..(i - 1) : types[j].id # type_id

\* GET /vision-pipelines/{mode}
GetPipeline(mode) ==
    /\ response' = [op |-> "get_pipeline",
                    status |-> IF mode \notin DOMAIN pipelines_db
                               THEN 404 ELSE 200]
    /\ UNCHANGED <<pipelines_db, pipeline_store>>
    /\ UNCHANGED <<taxVars, storeVars, detectVars, laterVars>>

\* POST /vision-pipelines/{mode}/toggle
TogglePipeline(mode) ==
    /\ IF mode \notin DOMAIN pipelines_db
       THEN /\ response' = [op |-> "toggle_pipeline", status |-> 404]
            /\ UNCHANGED <<pipelines_db, pipeline_store>>
       ELSE /\ pipelines_db' = [pipelines_db EXCEPT ![mode].enabled = ~@]
            /\ response' = [op |-> "toggle_pipeline", status |-> 200]
            /\ UNCHANGED pipeline_store
    /\ UNCHANGED <<taxVars, storeVars, detectVars, laterVars>>

\* POST /vision-pipelines/{mode}/types
AddPipelineType(mode, request) ==
    /\ IF mode \notin DOMAIN pipelines_db
       THEN /\ response' = [op |-> "add_pipeline_type", status |-> 404]
            /\ UNCHANGED <<pipelines_db, pipeline_store>>
       ELSE IF request.id \in TypeIdsOf(pipelines_db[mode].types)
       THEN /\ response' = [op |-> "add_pipeline_type", status |-> 400]
            /\ UNCHANGED <<pipelines_db, pipeline_store>>
       ELSE /\ pipelines_db' = [pipelines_db EXCEPT
                                   ![mode].types = Append(@, request)]
            /\ pipeline_store' = save_json(pipelines_db')
            /\ response' = [op |-> "add_pipeline_type", status |-> 200]
    /\ UNCHANGED <<taxVars, storeVars, detectVars, laterVars>>

\* PUT /vision-pipelines/{mode}/types/{type_id}
UpdatePipelineType(mode, type_id, request) ==
    /\ IF mode \notin DOMAIN pipelines_db
       THEN /\ response' = [op |-> "update_pipeline_type", status |-> 404]
            /\ UNCHANGED <<pipelines_db, pipeline_store>>
       ELSE LET i == FirstIndex(pipelines_db[mode].types, type_id)
            IN  IF i = 0
                THEN /\ response' = [op |-> "update_pipeline_type",
                                     status |-> 404]
                     /\ UNCHANGED <<pipelines_db, pipeline_store>>
                ELSE /\ pipelines_db' = [pipelines_db EXCEPT
                                            ![mode].types[i] = request]
                     /\ pipeline_store' = save_json(pipelines_db')
                     /\ response' = [op |-> "update_pipeline_type",
                                     status |-> 200]
    /\ UNCHANGED <<taxVars, storeVars, detectVars, laterVars>>

\* POST /vision-pipelines/{mode}/types/{type_id}/toggle
TogglePipelineType(mode, type_id) ==
    /\ IF mode \notin DOMAIN pipelines_db
       THEN /\ response' = [op |-> "toggle_pipeline_type", status |-> 404]
            /\ UNCHANGED <<pipelines_db, pipeline_store>>
       ELSE LET i == FirstIndex(pipelines_db[mode].types, type_id)
            IN  IF i = 0
                THEN /\ response' = [op |-> "toggle_pipeline_type",
                                     status |-> 404]
                     /\ UNCHANGED <<pipelines_db, pipeline_store>>
                ELSE /\ pipelines_db' = [pipelines_db EXCEPT
                                            ![mode].types[i].enabled = ~@]
                     /\ pipeline_store' = save_json(pipelines_db')
                     /\ response' = [op |-> "toggle_pipeline_type",
                                     status |-> 200]
    /\ UNCHANGED <<taxVars, storeVars, detectVars, laterVars>>

\* DELETE /vision-pipelines/{mode}/types/{type_id}
DeletePipelineType(mode, type_id) ==
    /\ IF mode \notin DOMAIN pipelines_db
       THEN /\ response' = [op |-> "delete_pipeline_type", status |-> 404]
            /\ UNCHANGED <<pipelines_db, pipeline_store>>
       ELSE LET preset_ids ==
                    IF mode \in DOMAIN PRESET_PIPELINES
                    THEN TypeIdsOf(PRESET_PIPELINES[mode].types) ELSE {}
            IN  IF type_id \in preset_ids
                THEN /\ response' = [op |-> "delete_pipeline_type",
                                     status |-> 400]
                     /\ UNCHANGED <<pipelines_db, pipeline_store>>
                ELSE /\ pipelines_db' =
                            [pipelines_db EXCEPT
                                ![mode].types = WithoutType(@, type_id)]
                     /\ pipeline_store' = save_json(pipelines_db')
                     /\ response' = [op |-> "delete_pipeline_type",
                                     status |-> 200]
    /\ UNCHANGED <<taxVars, storeVars, detectVars, laterVars>>

\* POST /vision-pipelines/reset
ResetPipelines ==
    /\ pipelines_db' = PRESET_PIPELINES
    /\ pipeline_store' = save_json(pipelines_db')
    /\ response' = [op |-> "reset_pipelines", status |-> 200]
    /\ UNCHANGED <<taxVars, storeVars, detectVars, laterVars>>

\* ---- the process ---------------------------------------------------------
\* the server is stopped and started again: both modules are imported anew,
\* and only the files are what they were
Restart ==
    /\ EntityTypesLoaded(objects', entity_types_db')
    /\ PipelinesLoaded(pipelines_db', pipeline_store', pipeline_store)
    /\ response' = [op |-> "startup", status |-> 0]
    /\ DEFAULT_CONFIGS' = ShippedConfigs
    /\ UNCHANGED <<model_config_file, docxVars, hasVars, glmVars, fileVars, storeVars, detectVars>>

NextTaxonomy ==
    \/ \E type_id \in TypeIdArgs : GetEntityType(type_id)
    \/ \E uuid \in CustomIds, name \in RequestNames :
          CreateEntityType(uuid, name)
    \/ \E type_id \in TypeIdArgs, request \in UpdateRequests :
          UpdateEntityType(type_id, request)
    \/ \E type_id \in TypeIdArgs : DeleteEntityType(type_id)
    \/ \E type_id \in TypeIdArgs : ToggleEntityType(type_id)
    \/ ResetEntityTypes
    \/ Restart

SpecTaxonomy == InitExtract /\ [][NextTaxonomy]_vars

NextPipelines ==
    \/ \E mode \in ModeArgs : GetPipeline(mode)
    \/ \E mode \in ModeArgs : TogglePipeline(mode)
    \/ \E mode \in ModeArgs, request \in PipelineTypeRequests :
          AddPipelineType(mode, request)
    \/ \E mode \in ModeArgs, type_id \in PipelineTypeIdArgs,
          request \in PipelineTypeRequests :
          UpdatePipelineType(mode, type_id, request)
    \/ \E mode \in ModeArgs, type_id \in PipelineTypeIdArgs :
          TogglePipelineType(mode, type_id)
    \/ \E mode \in ModeArgs, type_id \in PipelineTypeIdArgs :
          DeletePipelineType(mode, type_id)
    \/ ResetPipelines
    \/ Restart

SpecPipelines == InitExtract /\ [][NextPipelines]_vars

-----------------------------------------------------------------------------
(* Properties of the configuration registries                              *)

\* C16: deleting a preset entity type fails with PresetProtected (status
\* 400) and leaves the registry unchanged, deleting a user-created type
\* removes exactly that entry, and every preset id is always in the registry.
C16_PresetsProtected ==
    /\ [](PresetIds \subseteq DOMAIN entity_types_db)
    /\ [][\A type_id \in TypeIdArgs :
            (type_id \in DOMAIN entity_types_db /\ DeleteEntityType(type_id))
            => IF type_id \in PresetIds
               THEN /\ response'.status = 400
                    /\ UNCHANGED taxVars
               ELSE /\ response'.status = 200
                    /\ Registry(objects', entity_types_db') =
                           [id \in DOMAIN entity_types_db \ {type_id} |->
                               Registry(objects, entity_types_db)[id]]]_vars

\* a preset deletion was refused while a user-created type was registered
C16_Witness ==
    /\ response = [op |-> "delete_entity_type", status |-> 400]
    /\ DOMAIN entity_types_db \cap CustomIds # {}

\* a user-created type was deleted
C16_WitnessUser ==
    /\ response = [op |-> "delete_entity_type", status |-> 200]
    /\ DOMAIN entity_types_db = PresetIds

\* C17: once reset has run, the registry holds exactly the shipped preset
\* entries with their shipped field values, and no user-created entry.
C17_ResetRestoresShipped ==
    response.op = "reset_entity_types" =>
        Registry(objects, entity_types_db) = ShippedEntityTypes

\* the part of C17 the code keeps: reset drops the user-created entries
C17_ResetDropsUserEntries ==
    response.op = "reset_entity_types" =>
        DOMAIN entity_types_db = PresetIds

\* C18: get, update, delete and toggle on an id that is not in the registry,
\* and every pipeline-type operation addressed to an unknown mode or an
\* unknown type id, answer NotFound (status 404) and change nothing.
C18_UnknownIsNotFound ==
    [][/\ \A type_id \in TypeIdArgs :
            (/\ type_id \notin DOMAIN entity_types_db
             /\ \/ GetEntityType(type_id)
                \/ \E request \in UpdateRequests :
                      UpdateEntityType(type_id, request)
                \/ DeleteEntityType(type_id)
                \/ ToggleEntityType(type_id))
            => response'.status = 404 /\ UNCHANGED <<taxVars, pipeVars>>
       /\ \A mode \in ModeArgs, type_id \in PipelineTypeIdArgs :
            (/\ \/ mode \notin DOMAIN pipelines_db
                \/ type_id \notin TypeIdsOf(pipelines_db[mode].types)
             /\ \/ \E request \in PipelineTypeRequests :
                      UpdatePipelineType(mode, type_id, request)
                \/ TogglePipelineType(mode, type_id)
                \/ DeletePipelineType(mode, type_id))
            => response'.status = 404 /\ UNCHANGED <<taxVars, pipeVars>>
       /\ \A mode \in ModeArgs, request \in PipelineTypeRequests :
            (mode \notin DOMAIN pipelines_db /\ AddPipelineType(mode, request))
            => response'.status = 404 /\ UNCHANGED <<taxVars, pipeVars>>]_vars

\* the handlers that change a configuration
MutatingOps ==
    {"create_entity_type", "update_entity_type", "delete_entity_type",
     "toggle_entity_type", "reset_entity_types",
     "toggle_pipeline", "add_pipeline_type", "update_pipeline_type",
     "toggle_pipeline_type", "delete_pipeline_type", "reset_pipelines"}

\* C19: after every mutating operation the state on disk equals the state
\* in memory: a restart, which reloads from disk, reproduces the registry
\* and the pipeline configuration as they stood after the mutation.
C19_RestartReproduces ==
    (response.op \in MutatingOps /\ response.status = 200) =>
        /\ load_pipelines(pipeline_store) = pipelines_db
        /\ Registry(ImportedObjects, PRESET_ENTITY_TYPES) =
               Registry(objects, entity_types_db)

\* C28: in every pipeline the type ids are pairwise distinct and every preset
\* type of the pipeline is still in its list, enabled or not.
C28_DistinctIdsPresetsKept ==
    \A mode \in DOMAIN pipelines_db :
        LET types == pipelines_db[mode].types
        IN  /\ \A i, j \in 1..Len(types) :
                  types[i].id = types[j].id => i = j
            /\ mode \in DOMAIN PRESET_PIPELINES =>
                  TypeIdsOf(PRESET_PIPELINES[mode].types) \subseteq TypeIdsOf(types)

\* the part of C28 the code keeps when no update carries another id
C28_DeleteKeepsPresets ==
    [][\A mode \in ModeArgs, type_id \in PipelineTypeIdArgs :
          (/\ mode \in DOMAIN PRESET_PIPELINES
           /\ type_id \in TypeIdsOf(PRESET_PIPELINES[mode].types)
           /\ DeletePipelineType(mode, type_id))
          => response'.status = 400 /\ UNCHANGED pipeVars]_vars

-----------------------------------------------------------------------------
(***************************************************************************)
(* Part VII.  Writing the configuration stores                             *)
(*                                                                         *)
(* save_json (core/persistence.py) and save_configs (api/model_config.py)  *)
(* step by step, with the process dying between any two steps.  A file is  *)
(* the sequence of the chunks json.dump has written to it; a document is   *)
(* named by the one value that changes in it.                              *)
(***************************************************************************)

\* pipelines_db with the ocr_has pipeline enabled or disabled, and the
\* ModelConfigList with either of the DEFAULT_CONFIGS active
Documents(path) ==
    IF path = PIPELINE_STORE_PATH THEN {"enabled", "disabled"}
    ELSE {"local_glm", "zhipu_glm4v"}

\* the document a file holds, when json.load can read one from it
Holds(content, document) == content = Serialise(document)

\* the last document the file at `path` held completely
LastHeld(path) ==
    IF \E document \in Documents(path) : Holds(files[path], document)
    THEN files[path][2]
    ELSE previous[path]

\* save_json, line 36: open(tmp_path, "w") creates or truncates the file
SaveJsonOpen(data) ==
    /\ wpc = "idle"
    /\ wpc' = "save_json"
    /\ files' = [files EXCEPT ![TmpPath(PIPELINE_STORE_PATH)] = <<>>]
    /\ previous' = [previous EXCEPT
                       ![PIPELINE_STORE_PATH] = LastHeld(PIPELINE_STORE_PATH)]
    /\ pending' = [pending EXCEPT ![PIPELINE_STORE_PATH] = data]
    /\ UNCHANGED <<cfgVars, detectVars, laterVars>>

\* save_json, line 37: json.dump writes the next chunk
SaveJsonDump ==
    LET tmp_path == TmpPath(PIPELINE_STORE_PATH)
        chunks == Serialise(pending[PIPELINE_STORE_PATH])
    IN  /\ wpc = "save_json"
        /\ Len(files[tmp_path]) < Len(chunks)
        /\ files' = [files EXCEPT
                        ![tmp_path] = Append(@, chunks[Len(@) + 1])]
        /\ UNCHANGED <<wpc, previous, pending, cfgVars, detectVars, laterVars>>

\* save_json, line 38: os.replace(tmp_path, path)
SaveJsonReplace ==
    LET tmp_path == TmpPath(PIPELINE_STORE_PATH)
    IN  /\ wpc = "save_json"
        /\ files[tmp_path] = Serialise(pending[PIPELINE_STORE_PATH])
        /\ files' = [files EXCEPT ![PIPELINE_STORE_PATH] = files[tmp_path],
                                  ![tmp_path] = Absent]
        /\ wpc' = "idle"
        /\ UNCHANGED <<previous, pending, cfgVars, detectVars, laterVars>>

\* save_configs, line 96: open(CONFIG_FILE, "w") creates or truncates
SaveConfigsOpen(configs) ==
    /\ wpc = "idle"
    /\ wpc' = "save_configs"
    /\ files' = [files EXCEPT ![CONFIG_FILE] = <<>>]
    /\ previous' = [previous EXCEPT ![CONFIG_FILE] = LastHeld(CONFIG_FILE)]
    /\ pending' = [pending EXCEPT ![CONFIG_FILE] = configs]
    /\ UNCHANGED <<cfgVars, detectVars, laterVars>>

\* save_configs, line 97: json.dump writes the next chunk
SaveConfigsDump ==
    LET chunks == Serialise(pending[CONFIG_FILE])
    IN  /\ wpc = "save_configs"
        /\ Len(files[CONFIG_FILE]) < Len(chunks)
        /\ files' = [files EXCEPT
                        ![CONFIG_FILE] = Append(@, chunks[Len(@) + 1])]
        /\ UNCHANGED <<wpc, previous, pending, cfgVars, detectVars, laterVars>>

\* save_configs: the `with` block is left
SaveConfigsClose ==
    /\ wpc = "save_configs"
    /\ files[CONFIG_FILE] = Serialise(pending[CONFIG_FILE])
    /\ wpc' = "idle"
    /\ UNCHANGED <<files, previous, pending, cfgVars, detectVars, laterVars>>

\* the process dies in the middle of a save and is started again; the files
\* are what they were
Crash ==
    /\ wpc # "idle"
    /\ wpc' = "idle"
    /\ UNCHANGED <<files, previous, pending, cfgVars, detectVars, laterVars>>

NextStore ==
    \/ \E data \in Documents(PIPELINE_STORE_PATH) : SaveJsonOpen(data)
    \/ SaveJsonDump
    \/ SaveJsonReplace
    \/ \E configs \in Documents(CONFIG_FILE) : SaveConfigsOpen(configs)
    \/ SaveConfigsDump
    \/ SaveConfigsClose
    \/ Crash

SpecStore == InitExtract /\ [][NextStore]_vars

-----------------------------------------------------------------------------
(* Properties of the store files                                           *)

\* C20: at any instant, a crash in the middle of a save included, every
\* configuration store file holds either the complete document it held
\* before the save or the complete document being saved.
C20_StoreHoldsOldOrNew ==
    \A path \in StorePaths :
        files[path] # Absent =>
            \/ Holds(files[path], previous[path])
            \/ Holds(files[path], pending[path])

\* the part of C20 the code keeps: the store save_json writes
C20_SaveJsonHoldsOldOrNew ==
    \/ Holds(files[PIPELINE_STORE_PATH], previous[PIPELINE_STORE_PATH])
    \/ Holds(files[PIPELINE_STORE_PATH], pending[PIPELINE_STORE_PATH])
-----------------------------------------------------------------------------
(* Part VIII: the model configuration (api/model_config.py)                *)

\* the ids the requests name: both shipped ones and one of the user
ModelConfigIdArgs == {"local_glm", "zhipu_glm4v", "my_model"}

\* the ModelConfig bodies of POST and PUT
ModelConfigBodies == [id : ModelConfigIdArgs, enabled : BOOLEAN]

\* load_configs: the list parsed from the file, a fresh object, or else the
\* module object DEFAULT_CONFIGS itself
load_configs == IF model_config_file # <<>> THEN model_config_file[1] ELSE DEFAULT_CONFIGS

\* save_configs(configs) after the handler changed `configs` in place: with no
\* file `configs` is DEFAULT_CONFIGS, which the change has reached as well
save_configs(configs) ==
    /\ model_config_file' = <<configs>>
    /\ DEFAULT_CONFIGS' = IF model_config_file # <<>> THEN DEFAULT_CONFIGS ELSE configs

ConfigIdsOf(configs) == {configs[i].id : i \in 1..Len(configs)}

\* the index of the entry the loops over configs.configs stop at
ConfigIndex(configs, config_id) ==
    CHOOSE i \in 1..Len(configs) :
        /\ configs[i].id = config_id
        /\ \A j \in 1..(i - 1) : configs[j].id # config_id

\* configs.configs.pop(i)
PopConfig(configs, i) == SubSeq(configs, 1, i - 1) \o SubSeq(configs, i + 1, Len(configs))

\* the id of the first enabled entry, None when there is none
FirstEnabledId(configs) ==
    IF \E i \in 1..Len(configs) : configs[i].enabled
    THEN configs[CHOOSE i \in 1..Len(configs) :
                     /\ configs[i].enabled
                     /\ \A j \in 1..(i - 1) : ~configs[j].enabled].id
    ELSE "null"

Refused(op, status) ==
    /\ response' = [op |-> op, status |-> status]
    /\ UNCHANGED modelVars

\* GET /model-config/active
GetActiveConfig ==
    /\ response' = [op |-> "get_active_config", status |-> 200]
    /\ UNCHANGED <<modelVars, docxVars, hasVars, glmVars, fileVars, taxVars, pipeVars, storeVars, detectVars>>

\* POST /model-config/active/{config_id}
SetActiveConfig(config_id) ==
    /\ LET configs == load_configs
       IN  IF config_id \notin ConfigIdsOf(configs.configs)
           THEN Refused("set_active_config", 404)
           ELSE IF ~configs.configs[ConfigIndex(configs.configs, config_id)].enabled
           THEN Refused("set_active_config", 400)
           ELSE /\ save_configs([configs EXCEPT !.active_id = config_id])
                /\ response' = [op |-> "set_active_config", status |-> 200]
    /\ UNCHANGED <<docxVars, hasVars, glmVars, fileVars, taxVars, pipeVars, storeVars, detectVars>>

\* POST /model-config
CreateModelConfig(config) ==
    /\ LET configs == load_configs
       IN  IF config.id \in ConfigIdsOf(configs.configs)
           THEN Refused("create_model_config", 400)
           ELSE /\ save_configs([configs EXCEPT !.configs = Append(@, config)])
                /\ response' = [op |-> "create_model_config", status |-> 200]
    /\ UNCHANGED <<docxVars, hasVars, glmVars, fileVars, taxVars, pipeVars, storeVars, detectVars>>

\* PUT /model-config/{config_id}
UpdateModelConfig(config_id, config) ==
    /\ LET configs == load_configs
       IN  IF config_id \notin ConfigIdsOf(configs.configs)
           THEN Refused("update_model_config", 404)
           ELSE LET i == ConfigIndex(configs.configs, config_id)
                    kept == [config EXCEPT !.id = config_id]
                IN  /\ save_configs([configs EXCEPT !.configs[i] = kept])
                    /\ response' = [op |-> "update_model_config", status |-> 200]
    /\ UNCHANGED <<docxVars, hasVars, glmVars, fileVars, taxVars, pipeVars, storeVars, detectVars>>

DeleteModelConfig_KeepsActive(config_id) ==
    /\ LET configs == load_configs
       IN  IF Len(configs.configs) <= 1
           THEN Refused("delete_model_config", 400)
           ELSE IF config_id \notin ConfigIdsOf(configs.configs)
           THEN Refused("delete_model_config", 404)
           ELSE LET i == ConfigIndex(configs.configs, config_id)
                    left == PopConfig(configs.configs, i)
                IN  /\ save_configs([configs EXCEPT !.configs = left])
                    /\ response' = [op |-> "delete_model_config", status |-> 200]
    /\ UNCHANGED <<docxVars, hasVars, glmVars, fileVars, taxVars, pipeVars, storeVars, detectVars>>

\* DELETE /model-config/{config_id}
DeleteModelConfig(config_id) ==
    /\ LET configs == load_configs
       IN  IF Len(configs.configs) <= 1
           THEN Refused("delete_model_config", 400)
           ELSE IF config_id \notin ConfigIdsOf(configs.configs)
           THEN Refused("delete_model_config", 404)
           ELSE LET i == ConfigIndex(configs.configs, config_id)
                    left == PopConfig(configs.configs, i)
                    active == IF configs.active_id = config_id
                              THEN FirstEnabledId(left)
                              ELSE configs.active_id
                IN  /\ save_configs([configs |-> left, active_id |-> active])
                    /\ response' = [op |-> "delete_model_config", status |-> 200]
    /\ UNCHANGED <<docxVars, hasVars, glmVars, fileVars, taxVars, pipeVars, storeVars, detectVars>>

\* POST /model-config/reset: save_configs(DEFAULT_CONFIGS)
ResetModelConfigs ==
    /\ model_config_file' = <<DEFAULT_CONFIGS>>
    /\ response' = [op |-> "reset_model_configs", status |-> 200]
    /\ UNCHANGED <<DEFAULT_CONFIGS, docxVars, hasVars, glmVars, fileVars, taxVars, pipeVars, storeVars, detectVars>>

NextModelConfig ==
    \/ GetActiveConfig
    \/ \E config_id \in ModelConfigIdArgs : SetActiveConfig(config_id)
    \/ \E config \in ModelConfigBodies : CreateModelConfig(config)
    \/ \E config_id \in ModelConfigIdArgs, config \in ModelConfigBodies :
          UpdateModelConfig(config_id, config)
    \/ \E config_id \in ModelConfigIdArgs : DeleteModelConfig(config_id)
    \/ ResetModelConfigs
    \/ Restart

SpecModelConfig == InitExtract /\ [][NextModelConfig]_vars

\* C29: once reset_model_configs has answered, the stored configuration is the
\* shipped default list with the shipped active id.
C29_ResetRestoresShippedConfigs ==
    response.op = "reset_model_configs" => model_config_file = <<ShippedConfigs>>

\* the part of C29 the code keeps: a reset that follows a written file and a
\* restart, or any reset while DEFAULT_CONFIGS is untouched
C29_ResetStoresDefaultObject ==
    response.op = "reset_model_configs" => model_config_file = <<DEFAULT_CONFIGS>>

\* C30: the configuration list is never empty, its ids are pairwise distinct,
\* and active_id is None or the id of an entry of the list.
C30_ListWellFormed ==
    LET configs == load_configs
    IN  /\ Len(configs.configs) >= 1
        /\ \A i, j \in 1..Len(configs.configs) :
               configs.configs[i].id = configs.configs[j].id => i = j
        /\ configs.active_id \in ConfigIdsOf(configs.configs) \cup {"null"}

\* the active configuration was deleted and no enabled one was left
C30_Witness ==
    /\ response = [op |-> "delete_model_config", status |-> 200]
    /\ load_configs.active_id = "null"
    /\ Len(load_configs.configs) >= 1

-----------------------------------------------------------------------------
(* Part IX: the DOCX writer (Redactor._replace_in_paragraph)               *)

MaxParaLen == 4   \* longest paragraph text
MaxOldLen  == 3   \* longest text a replacement is keyed by
MaxReplacements == 2   \* entries of the replacements dict

\* the paragraphs handed in: a text cut into two runs, either of which may
\* be empty
Paragraphs(n) ==
    UNION {{<<SubSeq(t, 1, k), SubSeq(t, k + 1, Len(t))>> : k \in 0..Len(t)} :
              t \in StrsUpTo(n)}

\* what the writer puts for old_text; 0 is no character of a paragraph
NewText(old_text) == <<0>> \o old_text

\* the replacements dicts: distinct keys, in insertion order
ReplacementDicts(n, k) ==
    {r \in SeqsUpTo({<<old, NewText(old)>> : old \in StrsUpTo(n) \ {<<>>}}, k) :
        \A i, j \in 1..Len(r) : r[i][1] = r[j][1] => i = j}

\* "".join(run.text for run in runs)
RECURSIVE JoinRuns(_)
JoinRuns(runs) == IF runs = <<>> THEN <<>> ELSE Head(runs) \o JoinRuns(Tail(runs))

\* style_ids: for every character the index of its run
RECURSIVE StyleIds(_, _)
StyleIds(runs, idx) ==
    IF runs = <<>> THEN <<>>
    ELSE [i \in 1..Len(Head(runs)) |-> idx] \o StyleIds(Tail(runs), idx + 1)

\* the loop over replacements.items(): every occurrence of every old_text
RECURSIVE FindMatches(_, _)
FindMatches(full_text, items) ==
    IF items = <<>> THEN <<>>
    ELSE LET old_text == Head(items)[1]
             new_text == Head(items)[2]
             found    == IF old_text = <<>> THEN <<>>
                         ELSE Occurrences(full_text, old_text, 0)
         IN  [i \in 1..Len(found) |->
                 <<found[i], found[i] + Len(old_text), new_text>>]
             \o FindMatches(full_text, Tail(items))

\* the sort key (x[0], -(x[1] - x[0])) of one match is not above another's
MatchKeyLeq(a, b) ==
    \/ a[1] < b[1]
    \/ a[1] = b[1] /\ -(a[2] - a[1]) <= -(b[2] - b[1])

\* matches.sort(key=lambda x: (x[0], -(x[1] - x[0]))): stable
RECURSIVE SortMatches(_)
SortMatches(s) ==
    IF s = <<>> THEN <<>>
    ELSE LET front == SortMatches(SubSeq(s, 1, Len(s) - 1))
             e     == s[Len(s)]
             k     == Cardinality({i \in 1..Len(front) : MatchKeyLeq(front[i], e)})
         IN  SubSeq(front, 1, k) \o <<e>> \o SubSeq(front, k + 1, Len(front))

\* the loop that fills filtered_matches: a match that starts before the end
\* of the match kept last is left out
RECURSIVE FilterOverlaps(_, _)
FilterOverlaps(sorted, last_end) ==
    IF sorted = <<>> THEN <<>>
    ELSE IF Head(sorted)[1] < last_end
    THEN FilterOverlaps(Tail(sorted), last_end)
    ELSE <<Head(sorted)>> \o FilterOverlaps(Tail(sorted), Head(sorted)[2])

\* Counter(span_style_ids).most_common(1)[0][0]: the most frequent run of
\* the span, the one met first among equals
TargetRun(span_style_ids) ==
    LET Count(r) == Cardinality({i \in 1..Len(span_style_ids) : span_style_ids[i] = r})
        First(r) == CHOOSE i \in 1..Len(span_style_ids) :
                        /\ span_style_ids[i] = r
                        /\ \A j \in 1..(i - 1) : span_style_ids[j] # r
        runs     == {span_style_ids[i] : i \in 1..Len(span_style_ids)}
    IN  CHOOSE r \in runs :
            \A q \in runs \ {r} :
                Count(r) > Count(q) \/ (Count(r) = Count(q) /\ First(r) < First(q))

\* the while-loop that rebuilds the text of every run, from index i on
RECURSIVE Rebuild(_, _, _, _, _)
Rebuild(full_text, kept, style_ids, i, outputs) ==
    IF i >= Len(full_text) THEN outputs
    ELSE IF \E m \in 1..Len(kept) : kept[m][1] = i
    THEN LET repl   == kept[CHOOSE m \in 1..Len(kept) : kept[m][1] = i]
             target == TargetRun(Slice(style_ids, repl[1], repl[2]))
         IN  Rebuild(full_text, kept, style_ids, repl[2],
                     [outputs EXCEPT ![target] = @ \o repl[3]])
    ELSE Rebuild(full_text, kept, style_ids, i + 1,
                 [outputs EXCEPT ![style_ids[i + 1]] = Append(@, full_text[i + 1])])

\* Redactor._replace_in_paragraph(para, replacements)
ReplaceInParagraph(runs, items) ==
    /\ dpc = "idle"
    /\ para_runs' = runs
    /\ para_replacements' = items
    /\ LET full_text == JoinRuns(runs)
           found     == FindMatches(full_text, items)
           kept      == FilterOverlaps(SortMatches(found), -1)
       IN  /\ para_matches' = IF items = <<>> \/ full_text = <<>> THEN <<>> ELSE found
           /\ filtered_matches' = IF items = <<>> THEN <<>> ELSE kept
           /\ run_outputs' =
                 IF items = <<>> \/ full_text = <<>> \/ found = <<>>
                 THEN runs
                 ELSE Rebuild(full_text, kept, StyleIds(runs, 1), 0,
                              [r \in 1..Len(runs) |-> <<>>])
    /\ dpc' = "done"
    /\ UNCHANGED <<cfgVars, storeVars, modelVars, hasVars, glmVars, fileVars, detectVars>>

\* the call has returned and its locals are gone: the next paragraph of
\* _iter_all_paragraphs is due
NextParagraph ==
    /\ dpc = "done"
    /\ dpc' = "idle"
    /\ para_runs' = <<>>
    /\ para_replacements' = <<>>
    /\ para_matches' = <<>>
    /\ filtered_matches' = <<>>
    /\ run_outputs' = <<>>
    /\ UNCHANGED <<cfgVars, storeVars, modelVars, hasVars, glmVars, fileVars, detectVars>>

NextDocx ==
    \/ \E runs \in Paragraphs(MaxParaLen) :
          \E items \in ReplacementDicts(MaxOldLen, MaxReplacements) :
              ReplaceInParagraph(runs, items)
    \/ NextParagraph

SpecDocx == InitExtract /\ [][NextDocx]_vars

MatchesOverlap(a, b) == a[1] < b[2] /\ b[1] < a[2]
MatchLen(a) == a[2] - a[1]
MatchSet(s) == {s[i] : i \in 1..Len(s)}

\* C27: of two candidate matches of a paragraph that overlap, the longer one
\* is applied and the shorter one is skipped.
C27_LongerMatchWins ==
    dpc = "done" =>
        \A a, b \in MatchSet(para_matches) :
            MatchesOverlap(a, b) /\ MatchLen(a) > MatchLen(b) =>
                /\ a \in MatchSet(filtered_matches)
                /\ b \notin MatchSet(filtered_matches)

\* the part of C27 the code keeps: the matches applied do not overlap, the
\* leftmost candidate is applied, the longest of those that start there, and
\* a candidate is skipped only for one applied that starts no later
C27_LeftmostThenLongest ==
    dpc = "done" =>
        LET cands == MatchSet(para_matches)
            kept  == MatchSet(filtered_matches)
        IN  /\ kept \subseteq cands
            /\ \A a, b \in kept : a # b => ~MatchesOverlap(a, b)
            /\ \A a, b \in cands :
                  a[1] = b[1] /\ MatchLen(a) > MatchLen(b) => b \notin kept
            /\ \A a \in cands \ kept :
                  \E k \in kept : MatchesOverlap(a, k) /\ MatchKeyLeq(k, a)
            /\ JoinRuns(run_outputs) # JoinRuns(para_runs) \/ kept = {}

-----------------------------------------------------------------------------
(* Part X: the history of the HaS client (services/has_client.py)          *)

MaxDocuments == 2   \* documents uploaded

DocumentIds == 1..MaxDocuments

\* the tags of a masked text and the texts they stand for, in transliteration
HistoryTags  == {"renwu_1", "dizhi_1"}
HistoryTexts == {"zhangsan", "lisi"}

\* what pair() answers: tag -> list of original texts
PairAnswers ==
    UNION {[tags -> {<<v>> : v \in HistoryTexts}] : tags \in SUBSET HistoryTags}

Listed(values) == {values[i] : i \in 1..Len(values)}

\* the values of `values` that are not in `known`, in order
RECURSIVE Missing(_, _)
Missing(values, known) ==
    IF values = <<>> THEN <<>>
    ELSE IF Head(values) \in Listed(known) THEN Missing(Tail(values), known)
    ELSE <<Head(values)>> \o Missing(Tail(values), Append(known, Head(values)))

\* the loop of hide that updates _history_mapping from `mapping`
UpdateHistory(history, mapping) ==
    [tag \in DOMAIN history \cup DOMAIN mapping |->
        LET known == IF tag \in DOMAIN history THEN history[tag] ELSE <<>>
        IN  IF tag \in DOMAIN mapping
            THEN known \o Missing(mapping[tag], known)
            ELSE known]

\* the <<tag, text>> pairs a mapping lists
Entries(mapping) ==
    UNION {{<<tag, v>> : v \in Listed(mapping[tag])} : tag \in DOMAIN mapping}

\* HaSClient.reset_history; no handler and no service of the repository calls
\* it, so it is no step of the program
reset_history == history_mapping' = <<>>

\* POST /files/{file_id}/ner/hybrid reaches HybridNERService.extract
HybridNerExtract(file_id, has_mode) ==
    /\ hpc = "idle"
    /\ hdoc' = file_id
    /\ hpc' = IF has_mode = "ner" THEN "stage2" ELSE "started"
    /\ UNCHANGED <<history_mapping, history_origin, history_sent>>
    /\ UNCHANGED <<cfgVars, storeVars, modelVars, docxVars, glmVars, fileVars, detectVars>>

\* HaSClient.hide(text, types, use_history=True) with a model that answers:
\* the prompt carries the history when there is one, and the mapping of the
\* answer is added to the history
Hide(mapping) ==
    /\ hpc = "started"
    /\ history_sent' = history_mapping
    /\ history_mapping' = UpdateHistory(history_mapping, mapping)
    /\ history_origin' = history_origin \cup
           {<<e[1], e[2], hdoc>> : e \in Entries(mapping) \ Entries(history_mapping)}
    /\ hpc' = "stage2"
    /\ UNCHANGED hdoc
    /\ UNCHANGED <<cfgVars, storeVars, modelVars, docxVars, glmVars, fileVars, detectVars>>

\* HaSClient.hide when NER finds nothing or the model call fails
HideGivesUp ==
    /\ hpc = "started"
    /\ hpc' = "stage2"
    /\ UNCHANGED <<hdoc, history_mapping, history_origin, history_sent>>
    /\ UNCHANGED <<cfgVars, storeVars, modelVars, docxVars, glmVars, fileVars, detectVars>>

\* Stages 2 and 3, and the response
NerExtractReturns ==
    /\ hpc = "stage2"
    /\ hpc' = "idle"
    /\ UNCHANGED <<hdoc, history_mapping, history_origin, history_sent>>
    /\ UNCHANGED <<cfgVars, storeVars, modelVars, docxVars, glmVars, fileVars, detectVars>>

NextHas ==
    \/ \E file_id \in DocumentIds, has_mode \in HasModes :
          HybridNerExtract(file_id, has_mode)
    \/ \E mapping \in PairAnswers : Hide(mapping)
    \/ HideGivesUp
    \/ NerExtractReturns

SpecHas == InitExtract /\ [][NextHas]_vars

\* C21: when the processing of a document starts, the history mapping holds
\* no entry that an earlier document put there.
C21_HistoryPerDocument ==
    hpc = "started" =>
        /\ \A e \in history_origin : e[3] = hdoc
        /\ Entries(history_mapping) = {<<e[1], e[2]>> : e \in history_origin}

\* what the code keeps: the history only grows, all documents together
C21_HistoryAccumulates ==
    /\ Entries(history_mapping) = {<<e[1], e[2]>> : e \in history_origin}
    /\ [][Entries(history_mapping) \subseteq Entries(history_mapping')]_vars

-----------------------------------------------------------------------------
(* Part XI: the GLM client (core/glm_client.py)                            *)

\* what get_active_model_config gives: the provider of the active config;
\* "zhipu" has an api_key, "zhipu_nokey" has none, "none" is no config
Providers == {"zhipu", "zhipu_nokey", "openai", "local", "none"}

\* how an upstream call ends: an answer with text, an answer whose text is
\* empty, or an exception (refused, status >= 400, timeout)
CallOutcomes == {"ok", "empty_text", "error"}

\* a probe result, or the flag that holds it, by name
ProbeResult(ok) == IF ok THEN "ok" ELSE "failed"

\* is_mcp_available(): ensure_mcp_checker_started, then the global.  The
\* first call probes in the caller, stores the result and starts the thread,
\* which begins with a probe of its own; `ok` is how that first probe goes.
IsMcpAvailable(ok, value) ==
    IF mcp_check_started
    THEN /\ value = mcp_available
         /\ UNCHANGED probeVars
    ELSE /\ value = ok
         /\ mcp_check_started' = TRUE
         /\ mcp_available' = ok
         /\ last_probe' = ProbeResult(ok)
         /\ probe_pc' = "probing"

OtherVarsOfGlm == <<cfgVars, storeVars, modelVars, docxVars, hasVars, fileVars, detectVars>>

\* _mcp_health_loop: time.sleep(15) is over, _check_mcp_once begins
ProbeBegins ==
    /\ probe_pc = "sleeping"
    /\ probe_pc' = "probing"
    /\ UNCHANGED <<mcp_available, mcp_check_started, last_probe>>
    /\ UNCHANGED <<vpc, provider, flag_read, upstream_calls, vlm_boxes, OtherVarsOfGlm>>

\* _mcp_health_loop: _mcp_available = _check_mcp_once()
ProbeCompletes(ok) ==
    /\ probe_pc = "probing"
    /\ mcp_available' = ok
    /\ last_probe' = ProbeResult(ok)
    /\ probe_pc' = "sleeping"
    /\ UNCHANGED mcp_check_started
    /\ UNCHANGED <<vpc, provider, flag_read, upstream_calls, vlm_boxes, OtherVarsOfGlm>>

VisionDetect_IgnoresFlag(active, ok) ==
    /\ vpc = "idle"
    /\ provider' = active
    /\ upstream_calls' = <<>>
    /\ vlm_boxes' = "none"
    /\ IF active = "zhipu"
       THEN /\ \E value \in BOOLEAN : IsMcpAvailable(ok, value) /\ flag_read' = ProbeResult(value)
            /\ vpc' = "via_mcp"
       ELSE /\ flag_read' = "none"
            /\ vpc' = "direct"
            /\ UNCHANGED probeVars
    /\ UNCHANGED OtherVarsOfGlm

\* GLMClient.vision_detect up to the choice of the mode
VisionDetect(active, ok) ==
    /\ vpc = "idle"
    /\ provider' = active
    /\ upstream_calls' = <<>>
    /\ vlm_boxes' = "none"
    /\ IF active = "zhipu"
       THEN /\ \E value \in BOOLEAN : IsMcpAvailable(ok, value) /\ flag_read' = ProbeResult(value)
            /\ vpc' = IF flag_read' = "ok" THEN "via_mcp" ELSE "direct"
       ELSE /\ flag_read' = "none"
            /\ vpc' = "direct"
            /\ UNCHANGED probeVars
    /\ UNCHANGED OtherVarsOfGlm

\* vision_detect_via_mcp: the POST to /mcp/detect; an exception falls back
\* to vision_detect_direct
McpDetect(outcome) ==
    /\ vpc = "via_mcp"
    /\ upstream_calls' = Append(upstream_calls, <<"mcp", outcome>>)
    /\ IF outcome = "error"
       THEN vpc' = "direct" /\ UNCHANGED vlm_boxes
       ELSE vpc' = "done" /\ vlm_boxes' = "boxes"
    /\ UNCHANGED <<probeVars, provider, flag_read, OtherVarsOfGlm>>

\* vision_detect_direct with no cloud provider: straight to the local branch
DirectNoCloud ==
    /\ vpc = "direct"
    /\ provider \in {"local", "none"}
    /\ vpc' = "local"
    /\ UNCHANGED <<probeVars, provider, flag_read, upstream_calls, vlm_boxes, OtherVarsOfGlm>>

\* vision_detect_direct, provider zhipu: an exception of the ZhipuAI call is
\* caught and, like an empty text, leads to the local branch
ZhipuCall(outcome) ==
    /\ vpc = "direct"
    /\ provider \in {"zhipu", "zhipu_nokey"}
    /\ upstream_calls' = Append(upstream_calls, <<"cloud", outcome>>)
    /\ IF outcome = "ok"
       THEN vpc' = "done" /\ vlm_boxes' = "boxes"
       ELSE vpc' = "local" /\ UNCHANGED vlm_boxes
    /\ UNCHANGED <<probeVars, provider, flag_read, OtherVarsOfGlm>>

\* vision_detect_direct, provider openai or custom: an exception reaches the
\* outer except, which returns []; an empty text leads to the local branch
OpenAiCall(outcome) ==
    /\ vpc = "direct"
    /\ provider = "openai"
    /\ upstream_calls' = Append(upstream_calls, <<"cloud", outcome>>)
    /\ CASE outcome = "ok"         -> vpc' = "done" /\ vlm_boxes' = "boxes"
         [] outcome = "error"      -> vpc' = "done" /\ vlm_boxes' = "empty"
         [] outcome = "empty_text" -> vpc' = "local" /\ UNCHANGED vlm_boxes
    /\ UNCHANGED <<probeVars, provider, flag_read, OtherVarsOfGlm>>

LocalCall_Retries(outcome) ==
    /\ vpc = "local"
    /\ upstream_calls' = Append(upstream_calls, <<"local", outcome>>)
    /\ IF outcome = "error"
       THEN IF Len(upstream_calls) < 3
            THEN vpc' = "local" /\ UNCHANGED vlm_boxes
            ELSE vpc' = "done" /\ vlm_boxes' = "empty"
       ELSE vpc' = "done" /\ vlm_boxes' = "boxes"
    /\ UNCHANGED <<probeVars, provider, flag_read, OtherVarsOfGlm>>

\* vision_detect_direct, the local branch: an exception reaches the outer
\* except, which returns []; an empty text is parsed into no object
LocalCall(outcome) ==
    /\ vpc = "local"
    /\ upstream_calls' = Append(upstream_calls, <<"local", outcome>>)
    /\ IF outcome = "error"
       THEN vpc' = "done" /\ vlm_boxes' = "empty"
       ELSE vpc' = "done" /\ vlm_boxes' = "boxes"
    /\ UNCHANGED <<probeVars, provider, flag_read, OtherVarsOfGlm>>

\* _draw_boxes_via_mcp_or_local asks is_mcp_available() too, and the request
\* is over
DrawAndReturn(ok) ==
    /\ vpc = "done"
    /\ \E value \in BOOLEAN : IsMcpAvailable(ok, value)
    /\ vpc' = "idle"
    /\ UNCHANGED <<provider, flag_read, upstream_calls, vlm_boxes, OtherVarsOfGlm>>

NextGlm ==
    \/ ProbeBegins
    \/ \E ok \in BOOLEAN : ProbeCompletes(ok)
    \/ \E active \in Providers, ok \in BOOLEAN : VisionDetect(active, ok)
    \/ \E outcome \in CallOutcomes : McpDetect(outcome)
    \/ DirectNoCloud
    \/ \E outcome \in CallOutcomes : ZhipuCall(outcome)
    \/ \E outcome \in CallOutcomes : OpenAiCall(outcome)
    \/ \E outcome \in CallOutcomes : LocalCall(outcome)
    \/ \E ok \in BOOLEAN : DrawAndReturn(ok)

SpecGlm == InitExtract /\ [][NextGlm]_vars

Upstreams == <<"mcp", "cloud", "local">>
UpstreamRank(u) == CHOOSE i \in 1..3 : Upstreams[i] = u

C25_RoutedAfterGoodProbe ==
    [][(\E outcome \in CallOutcomes : McpDetect(outcome)) => last_probe = "ok"]_vars

\* C25, amended: a call goes to the MCP proxy only in a request that read
\* _mcp_available as True, and _mcp_available is True only when the probe
\* completed last at that moment had succeeded; a probe that fails after the
\* read does not stop the call.
C25_RoutedOnFlagRead ==
    /\ [](mcp_available <=> last_probe = "ok")
    /\ [](vpc = "via_mcp" => flag_read = "ok" /\ provider = "zhipu")
    /\ [][(\E outcome \in CallOutcomes : McpDetect(outcome)) => flag_read = "ok"]_vars

\* a call is about to go to the MCP proxy although the last probe failed
C25_Witness ==
    /\ vpc = "via_mcp"
    /\ flag_read = "ok"
    /\ last_probe = "failed"

-----------------------------------------------------------------------------
(* Part XII: the uploaded files (api/files.py, api/redaction.py)           *)

\* the ids the requests name: every id an upload can get, and one more
FileIdArgs == 1..(MaxDocuments + 1)

\* the keys a handler adds to the record of a file
RecordKeys == {"content", "is_scanned", "entities", "bounding_boxes", "output_path"}

OtherVarsOfFiles == <<cfgVars, storeVars, modelVars, docxVars, hasVars, glmVars, detectVars>>

Answer(op, status) == file_response' = [op |-> op, status |-> status]

\* a handler that answers without touching the store
Answers(op, status) ==
    /\ Answer(op, status)
    /\ UNCHANGED <<file_store, uploads, in_flight, delivered>>

\* file_store[file_id] gets the keys `keys`
WithKeys(file_id, keys) == [file_store EXCEPT ![file_id] = @ \cup keys]

\* del file_store[file_id]
WithoutFile(file_id) == [f \in DOMAIN file_store \ {file_id} |-> file_store[f]]

\* POST /files/upload: the record is stored under a fresh uuid
UploadFile ==
    /\ uploads < MaxDocuments
    /\ uploads' = uploads + 1
    /\ file_store' = (uploads' :> {}) @@ file_store
    /\ Answer("upload_file", 200)
    /\ UNCHANGED <<in_flight, delivered, OtherVarsOfFiles>>

\* GET /files/{file_id}/parse; FileParser.parse never suspends
ParseFile(file_id, is_scanned) ==
    /\ IF file_id \notin DOMAIN file_store
       THEN Answers("parse_file", 404)
       ELSE /\ file_store' = WithKeys(file_id, {"content"} \cup
                                 IF is_scanned THEN {"is_scanned"} ELSE {})
            /\ Answer("parse_file", 200)
            /\ UNCHANGED <<uploads, in_flight, delivered>>
    /\ UNCHANGED OtherVarsOfFiles

\* POST /files/{file_id}/ner/hybrid; the HaS client is synchronous, so the
\* handler never suspends
HybridNer(file_id) ==
    /\ IF file_id \notin DOMAIN file_store
       THEN Answers("hybrid_ner_extract", 404)
       ELSE IF "content" \notin file_store[file_id]
       THEN Answers("hybrid_ner_extract", 400)
       ELSE IF "is_scanned" \in file_store[file_id]
       THEN Answers("hybrid_ner_extract", 200)
       ELSE /\ file_store' = WithKeys(file_id, {"entities"})
            /\ Answer("hybrid_ner_extract", 200)
            /\ UNCHANGED <<uploads, in_flight, delivered>>
    /\ UNCHANGED OtherVarsOfFiles

\* POST /redaction/{file_id}/vision up to the await of
\* detect_with_dual_pipeline, whose tasks do suspend
VisionBegins(file_id) ==
    /\ file_id \notin in_flight
    /\ IF file_id \notin DOMAIN file_store
       THEN Answers("detect_sensitive_regions", 404)
       ELSE /\ in_flight' = in_flight \cup {file_id}
            /\ UNCHANGED <<file_store, uploads, delivered, file_response>>
    /\ UNCHANGED OtherVarsOfFiles

\* ... and from the await on: file_store[file_id] raises KeyError when the
\* record is gone
VisionStores(file_id) ==
    /\ file_id \in in_flight
    /\ in_flight' = in_flight \ {file_id}
    /\ IF file_id \notin DOMAIN file_store
       THEN Answer("detect_sensitive_regions", 500) /\ UNCHANGED file_store
       ELSE /\ file_store' = WithKeys(file_id, {"bounding_boxes"})
            /\ Answer("detect_sensitive_regions", 200)
    /\ UNCHANGED <<uploads, delivered, OtherVarsOfFiles>>

\* POST /redaction/execute; the entities and boxes come with the request
ExecuteRedaction(file_id) ==
    /\ IF file_id \notin DOMAIN file_store
       THEN Answers("execute_redaction", 404)
       ELSE /\ file_store' = WithKeys(file_id, {"output_path"})
            /\ Answer("execute_redaction", 200)
            /\ UNCHANGED <<uploads, in_flight, delivered>>
    /\ UNCHANGED OtherVarsOfFiles

\* GET /files/{file_id}/download
DownloadFile(file_id, redacted) ==
    /\ IF file_id \notin DOMAIN file_store
       THEN Answers("download_file", 404)
       ELSE IF redacted /\ "output_path" \notin file_store[file_id]
       THEN Answers("download_file", 400)
       ELSE /\ delivered' = IF redacted THEN delivered \cup {file_id} ELSE delivered
            /\ Answer("download_file", 200)
            /\ UNCHANGED <<file_store, uploads, in_flight>>
    /\ UNCHANGED OtherVarsOfFiles

\* DELETE /files/{file_id}
DeleteFile(file_id) ==
    /\ IF file_id \notin DOMAIN file_store
       THEN Answers("delete_file", 404)
       ELSE /\ file_store' = WithoutFile(file_id)
            /\ Answer("delete_file", 200)
            /\ UNCHANGED <<uploads, in_flight, delivered>>
    /\ UNCHANGED OtherVarsOfFiles

NextFiles ==
    \/ UploadFile
    \/ \E file_id \in FileIdArgs, is_scanned \in BOOLEAN : ParseFile(file_id, is_scanned)
    \/ \E file_id \in FileIdArgs : HybridNer(file_id)
    \/ \E file_id \in FileIdArgs : VisionBegins(file_id)
    \/ \E file_id \in FileIdArgs : VisionStores(file_id)
    \/ \E file_id \in FileIdArgs : ExecuteRedaction(file_id)
    \/ \E file_id \in FileIdArgs, redacted \in BOOLEAN : DownloadFile(file_id, redacted)
    \/ \E file_id \in FileIdArgs : DeleteFile(file_id)

SpecFiles == InitExtract /\ [][NextFiles]_vars

\* the stages the record of a file shows it has passed
Parsed(record)   == "content" \in record
Detected(record) == "entities" \in record \/ "bounding_boxes" \in record
Redacted(record) == "output_path" \in record

\* C22: a file is in a later stage only if it passed every earlier one:
\* detected only if parsed, redacted only if detected, delivered only if
\* redacted.
C22_StagesInOrder ==
    /\ \A file_id \in DOMAIN file_store :
          LET record == file_store[file_id]
          IN  /\ Detected(record) => Parsed(record)
              /\ Redacted(record) => Detected(record)
    /\ \A file_id \in delivered \cap DOMAIN file_store : Redacted(file_store[file_id])

\* the part of C22 the handlers check: text detection wants a parsed file
\* and the redacted download a redacted one
C22_ChecksKept ==
    /\ \A file_id \in DOMAIN file_store :
          "entities" \in file_store[file_id] => Parsed(file_store[file_id])
    /\ \A file_id \in delivered \cap DOMAIN file_store : Redacted(file_store[file_id])

\* C26: no operation that was in flight finds the record of its file gone
\* when it stores its result.
C26_NoRecordLost ==
    /\ file_response.status # 500
    /\ in_flight \subseteq DOMAIN file_store

=============================================================================
